---- MODULE Spec2Model ----
(***************************************************************************)
(* Model of the leetdreamer animation pipeline: the build orchestrator     *)
(* (pipeline/orchestrator.py) driving the TTS, animation, recorder and     *)
(* merger ports, with the scene model of pipeline/schema.py.               *)
(*                                                                         *)
(* Text is modelled as a sequence of chunks: the chunk "/" is the path     *)
(* separator, the chunks " ", "\t", "\n" are whitespace, every other chunk *)
(* is a run of ordinary characters.  A path is what pathlib makes of such  *)
(* a text: a root and a sequence of components.  Durations are in tenths   *)
(* of a second.                                                            *)
(***************************************************************************)
EXTENDS Integers, Sequences, FiniteSets, TLC

\* ------------------------------------------------------------------ bounds

\* Largest number of steps of a scene.
MaxSteps == 3

\* ------------------------------------------------------------------- text

IsSpace(c) == c \in {" ", "\t", "\n"}

RECURSIVE LStrip(_)
LStrip(s) == IF s # <<>> /\ IsSpace(Head(s)) THEN LStrip(Tail(s)) ELSE s

RECURSIVE RStrip(_)
RStrip(s) ==
    IF s # <<>> /\ IsSpace(s[Len(s)]) THEN RStrip(SubSeq(s, 1, Len(s) - 1)) ELSE s

\* str.strip()
Strip(s) == RStrip(LStrip(s))

\* `not text or not text.strip()`
TextIsBlank(text) == text = <<>> \/ Strip(text) = <<>>

\* `sub in s`
Contains(s, sub) ==
    \E k \in 0..(Len(s) - Len(sub)) : SubSeq(s, k + 1, k + Len(sub)) = sub

Digits == <<"0", "1", "2", "3", "4", "5", "6", "7", "8", "9">>

\* f"{i}" of a non-negative integer
RECURSIVE DecStr(_)
DecStr(n) ==
    IF n < 10 THEN <<Digits[n + 1]>>
    ELSE DecStr(n \div 10) \o <<Digits[(n % 10) + 1]>>

RECURSIVE Sum(_)
Sum(s) == IF s = <<>> THEN 0 ELSE Head(s) + Sum(Tail(s))

\* ------------------------------------------------------------------ paths

RECURSIVE LeadingSlashes(_)
LeadingSlashes(s) ==
    IF s # <<>> /\ Head(s) = "/" THEN 1 + LeadingSlashes(Tail(s)) ELSE 0

\* text.split("/")
RECURSIVE Split(_)
Split(s) ==
    IF s = <<>> THEN << <<>> >>
    ELSE IF Head(s) = "/" THEN << <<>> >> \o Split(Tail(s))
    ELSE LET r == Split(Tail(s)) IN << <<Head(s)>> \o Head(r) >> \o Tail(r)

\* pathlib keeps neither empty components nor "." ones
KeptPart(p) == p # <<>> /\ p # <<".">>

\* Path(text): a POSIX path has the root "//" for exactly two leading
\* slashes and "/" for any other number of them.
ParsePath(s) ==
    [root  |-> LET n == LeadingSlashes(s)
               IN  IF n = 0 THEN "" ELSE IF n = 2 THEN "//" ELSE "/",
     parts |-> SelectSeq(Split(s), KeptPart)]

\* path / text: an absolute right operand replaces the left one.
PathJoin(p, s) ==
    LET q == ParsePath(s)
    IN  IF q.root # "" THEN q
        ELSE [root |-> p.root, parts |-> p.parts \o q.parts]

RECURSIVE JoinParts(_)
JoinParts(ps) ==
    IF ps = <<>> THEN <<>>
    ELSE IF Len(ps) = 1 THEN ps[1]
    ELSE ps[1] \o <<"/">> \o JoinParts(Tail(ps))

\* str(path)
PathStr(p) ==
    LET r == IF p.root = "" THEN <<>>
             ELSE IF p.root = "/" THEN <<"/">> ELSE <<"/", "/">>
        t == r \o JoinParts(p.parts)
    IN  IF t = <<>> THEN <<".">> ELSE t

NoPath == [root |-> "", parts |-> <<>>]

\* ------------------------------------------------------------ scene model

\* Scene ids: a plain name, the empty text, an absolute path, a parent
\* reference, a name with a trailing separator.
SceneIds == {<<"two_sum">>, <<>>, <<"/", "tmp">>, <<"..">>, <<"two_sum", "/">>}

StepIds == {<<"step1">>, <<"step2">>}

\* Narrations: a sentence, the empty text, whitespace only.
Narrations == {<<"This is step one.">>, <<>>, <<" ">>}

\* schema.StepState: four optional fields, each None (<<>>) or a value.
\* The model has no other field: pydantic ignores extra input and raises
\* AttributeError for an attribute that is not a field.
StepState(left, right, highlight, message) ==
    [left |-> left, right |-> right, highlight |-> highlight,
     message |-> message]

\* StepState()
StepStateDefault == StepState(<<>>, <<>>, <<>>, <<>>)

StepStates == {StepStateDefault, StepState(<<0>>, <<3>>, <<"sum">>, <<"Start">>)}

\* schema.VisualizationConfig: a type (any str) and a config dict, here the
\* set of its keys.
VisualizationConfig(type, config) == [type |-> type, config |-> config]

VisualizationDefault == VisualizationConfig("array_pointers", {"array", "target"})

Visualizations ==
    {VisualizationConfig(t, c) :
        t \in {"array_pointers", "problem_statement", "heap"},
        c \in {{}, {"array", "target"}}}

Titles == {<<"Two Sum">>}

\* schema.Step: id and narration are any str (no validator).  build reads
\* no step state, so its scenes carry the default one.
Step == [id : StepIds, narration : Narrations, state : {StepStateDefault}]

\* Steps as the renderer sees them: the step state varies.
RenderStep ==
    [id : {<<"step1">>}, narration : {<<"This is step one.">>},
     state : StepStates]

\* Lists of at most MaxSteps steps.
StepLists(steps) == UNION {[1..n -> steps] : n \in 0..MaxSteps}

\* schema.SceneSpec: steps is any List[Step], the empty list included
SceneSpec ==
    [id : SceneIds, title : Titles, visualization : {VisualizationDefault},
     steps : StepLists(Step)]

\* Scenes as the renderer sees them: visualization and step states vary.
RenderSpecs ==
    [id : {<<"two_sum">>}, title : Titles, visualization : Visualizations,
     steps : StepLists(RenderStep)]

\* A projection that leaves out the steps with nothing to say.
get_narrations_spoken(spec) ==
    LET Spoken(step) == ~TextIsBlank(step.narration)
    IN  [k \in 1..Len(SelectSeq(spec.steps, Spoken)) |->
            SelectSeq(spec.steps, Spoken)[k].narration]

\* SceneSpec.get_narrations
get_narrations(spec) == [k \in 1..Len(spec.steps) |-> spec.steps[k].narration]

\* SceneSpec.get_step_ids
get_step_ids(spec) == [k \in 1..Len(spec.steps) |-> spec.steps[k].id]

\* ------------------------------------------------------------------ ports

TTSBackends == {"piper", "macos_say", "openai"}

\* Only PiperTTSAdapter defines the output_extension property.
HasOutputExtension(backend) == backend = "piper"

OutputExtension(backend) == ".wav"

\* Durations get_duration can report, in tenths of a second.
Durations == {10, 15, 25}

Outcome(ok, msg) == [ok |-> ok, msg |-> msg]

\* TTS generate: blank text is rejected; otherwise the engine succeeds or
\* fails.
GenerateOutcomes(text) ==
    IF TextIsBlank(text)
    THEN {Outcome(FALSE, <<"Text cannot be empty">>)}
    ELSE {Outcome(TRUE, <<>>), Outcome(FALSE, <<"Piper failed: ", "stderr">>)}

\* TTS get_duration: a duration, or a failure to parse one.
GetDurationOutcomes ==
    {[ok |-> TRUE, msg |-> <<>>, duration |-> d] : d \in Durations}
    \cup {[ok |-> FALSE,
           msg |-> <<"Could not parse duration from ffmpeg output">>,
           duration |-> 0]}

\* AnimationAdapter.render: the timing list must match the steps; the
\* template may be missing.
RenderOutcomes(spec, tm) ==
    IF Len(tm) # Len(spec.steps)
    THEN {Outcome(FALSE, <<"Timing list length (", ") must match number of steps (", ")">>)}
    ELSE {Outcome(TRUE, <<>>), Outcome(FALSE, <<"array_animation.html">>)}

\* RecorderAdapter.record
RecordOutcomes == {Outcome(TRUE, <<>>), Outcome(FALSE, <<"No video file was recorded">>)}

\* MergerAdapter.concat_audio
ConcatOutcomes == {Outcome(TRUE, <<>>), Outcome(FALSE, <<"FFmpeg command failed: ", "stderr">>)}

\* MergerAdapter.merge
MergeOutcomes == {Outcome(TRUE, <<>>), Outcome(FALSE, <<"FFmpeg not found at ", "ffmpeg">>)}

\* Path.mkdir and Path.write_text of the orchestrator itself
MkdirOutcomes == {Outcome(TRUE, <<>>), Outcome(FALSE, <<"Permission denied">>)}

WriteOutcomes == {Outcome(TRUE, <<>>), Outcome(FALSE, <<"No space left on device">>)}

\* ------------------------------------------------------------------ state

VARIABLES
    output_dir,          \* PipelineOrchestrator.output_dir
    tts,                 \* the TTS backend in PipelineOrchestrator.tts
    scene_spec,          \* build's scene_spec argument
    dry_run,             \* build's dry_run argument
    pc,                  \* position of the build call
    scene_output_dir,    \* local of build
    i,                   \* loop index of the running loop of build
    audio_paths,         \* local of build
    timing,              \* local of build
    total_duration,      \* local of build
    intermediate_files,  \* local of build: the dict, as its items in order
    exc,                 \* the exception caught by build's except clause
    raised,              \* the exception that left build
    result,              \* the BuildResult build returned
    calls,               \* the port calls made so far, in order
    fs,                  \* the paths that exist on disk
    timing_json,         \* what was written to timing.json, in order
    h_pc,                \* position of an HTMLAnimationAdapter.render call
    h_spec,              \* render's spec argument
    h_timing,            \* render's timing argument
    h_path,              \* render's output_path argument
    h_template,          \* the template render has loaded, if any
    h_steps_data,        \* render's steps_data
    h_exc,               \* the exception that left render
    h_ret,               \* what render returned
    h_files,             \* the files render has written, with their content
    r_pc,                \* position of a PlaywrightRecorder.record call
    r_calls,             \* how many record calls have been made
    r_page,              \* the page at html_path: does it signal readiness
    r_duration,          \* record's duration argument
    r_output,            \* record's output_path argument
    r_clock,             \* time since the call started, in tenths of a second
    r_ready,             \* window.animationReady of the page
    r_wait_from,         \* the clock when the wait under way started
    r_captured,          \* length of the timed wait that has ended
    r_dir,               \* the .webm files in the _video_temp directory
    r_out,               \* the video files at their final places
    r_exc,               \* the exception that left record
    r_ret,               \* what record returned
    m_pc,                \* position of an FFmpegMerger call
    m_op,                \* which method was called: concat_audio or merge
    m_paths,             \* the input paths: audio_paths, or video then audio
    m_output,            \* the output_path argument
    m_ffmpeg,            \* does the FFmpeg binary exist
    m_mkdir,             \* has the call created the output directory
    m_list,              \* the lines written to the temporary file list
    m_tmp,               \* does the temporary file list exist
    m_runs,              \* the FFmpeg commands run, in order
    m_vlen,              \* length of the video given to merge
    m_alen,              \* length of the audio given to merge
    m_result,            \* the media file merge produced
    m_pending,           \* the exception on its way through the finally clause
    m_exc,               \* the exception that left the call
    m_ret,               \* what the call returned
    f_pc,                \* position of a build_from_file call
    f_path,              \* the scene_path argument
    f_exists,            \* does scene_path exist
    f_readable,          \* can scene_path be read as text
    f_text,              \* the text of the scene file, as JSON tokens
    f_dry,               \* was build_from_file_dry_run called
    f_exc,               \* the exception build_from_file itself raised
    b_pc,                \* position of build.py's main
    b_files,             \* scene_files
    b_dry,               \* args.dry_run
    b_k,                 \* how many scene files the loop has taken
    b_results,           \* results
    b_counts,            \* successful and failed of the summary
    b_exit,              \* the exit status of the process
    b_args               \* what the command line names

\* A TTSAdapter.generate call
VARIABLES
    t_pc,                \* where the call is
    t_backend,           \* the adapter
    t_text,              \* the text to speak
    t_dest,              \* output_path as the caller gave it
    t_target,            \* output_path as the adapter uses it
    t_disk,              \* the audio files written, with their sizes
    t_exc,               \* the exception raised
    t_ret                \* the path returned

\* Two build calls on one orchestrator, their steps interleaved
VARIABLES
    p_ids,               \* the scene id of each build
    p_pc,                \* where each build is
    p_disk,              \* the files on disk, each with the build that made it
    p_reads,             \* the files each build has read
    p_results            \* the BuildResult of each build

\* The state of a build call.
build_locals ==
    <<output_dir, tts, scene_spec, dry_run, pc, scene_output_dir, i,
      audio_paths, timing, total_duration, intermediate_files, exc, raised,
      result, calls, timing_json>>

\* The state of a build call and the disk.
build_vars == <<build_locals, fs>>

\* The state of an HTMLAnimationAdapter.render call.
html_vars ==
    <<h_pc, h_spec, h_timing, h_path, h_template, h_steps_data, h_exc, h_ret,
      h_files>>

\* The state of a PlaywrightRecorder.record call.
rec_vars ==
    <<r_pc, r_calls, r_page, r_duration, r_output, r_clock, r_ready,
      r_wait_from, r_captured, r_dir, r_out, r_exc, r_ret>>

\* The state of an FFmpegMerger call.
mrg_vars ==
    <<m_pc, m_op, m_paths, m_output, m_ffmpeg, m_mkdir, m_list, m_tmp, m_runs,
      m_vlen, m_alen, m_result, m_pending, m_exc, m_ret>>

\* The state of a build_from_file call, the build it makes apart.
file_vars == <<f_pc, f_path, f_exists, f_readable, f_text, f_dry, f_exc>>

\* The state of build.py's main.
batch_vars ==
    <<b_pc, b_files, b_dry, b_k, b_results, b_counts, b_exit, b_args>>

\* The state of a TTSAdapter.generate call.
tts_vars == <<t_pc, t_backend, t_text, t_dest, t_target, t_disk, t_exc, t_ret>>

\* The state of two concurrent build calls.
par_vars == <<p_ids, p_pc, p_disk, p_reads, p_results>>

\* What the actions of one component leave alone.
rest_of_build ==
    <<html_vars, rec_vars, mrg_vars, file_vars, batch_vars,
      tts_vars, par_vars>>

rest_of_html ==
    <<build_vars, rec_vars, mrg_vars, file_vars, batch_vars,
      tts_vars, par_vars>>

rest_of_rec ==
    <<build_vars, html_vars, mrg_vars, file_vars, batch_vars,
      tts_vars, par_vars>>

rest_of_mrg ==
    <<build_locals, html_vars, rec_vars, file_vars, batch_vars,
      tts_vars, par_vars>>

rest_of_file ==
    <<html_vars, rec_vars, mrg_vars, batch_vars,
      tts_vars, par_vars>>

rest_of_batch ==
    <<build_vars, html_vars, rec_vars, mrg_vars, file_vars, tts_vars, par_vars>>

rest_of_tts ==
    <<build_vars, html_vars, rec_vars, mrg_vars, file_vars, batch_vars,
      par_vars>>

rest_of_par ==
    <<build_vars, html_vars, rec_vars, mrg_vars, file_vars, batch_vars,
      tts_vars>>

vars ==
    <<build_vars, html_vars, rec_vars, mrg_vars, file_vars, batch_vars,
      tts_vars, par_vars>>

NoExc == [type |-> "none", msg |-> <<>>]

Exc(type, msg) == [type |-> type, msg |-> msg]

\* BuildResult
BuildResult(scene_id, output_path, tm, total, success, error, files) ==
    [scene_id |-> scene_id, output_path |-> output_path, timing |-> tm,
     total_duration |-> total, success |-> success, error |-> error,
     intermediate_files |-> files]

NoResult == BuildResult(<<>>, NoPath, <<>>, 0, FALSE, <<>>, <<>>)

\* One port call: what it was given and how it ended.
Call(port, text, path, paths, tm, duration, out) ==
    [port |-> port, text |-> text, path |-> path, paths |-> paths,
     timing |-> tm, duration |-> duration, ok |-> out.ok, msg |-> out.msg]

\* One item of the intermediate_files dict.
Item(key, paths) == [key |-> key, paths |-> paths]

OutputDirs == {ParsePath(<<"output">>)}

\* No render call of the HTML adapter is under way.
HtmlIdle ==
    /\ h_pc = "idle"
    /\ h_spec = [id |-> <<>>, title |-> <<>>,
                 visualization |-> VisualizationDefault, steps |-> <<>>]
    /\ h_timing = <<>>
    /\ h_path = NoPath
    /\ h_template = <<>>
    /\ h_steps_data = <<>>
    /\ h_exc = NoExc
    /\ h_ret = <<>>
    /\ h_files = {}

\* No record call of the Playwright recorder has been made.
RecIdle ==
    /\ r_pc = "idle"
    /\ r_calls = 0
    /\ r_page = "silent"
    /\ r_duration = 0
    /\ r_output = NoPath
    /\ r_clock = 0
    /\ r_ready = FALSE
    /\ r_wait_from = 0
    /\ r_captured = 0
    /\ r_dir = {}
    /\ r_out = {}
    /\ r_exc = NoExc
    /\ r_ret = <<>>

\* No build_from_file call has been made.
FileIdle ==
    /\ f_pc = "idle"
    /\ f_path = NoPath
    /\ f_exists = FALSE
    /\ f_readable = FALSE
    /\ f_text = <<>>
    /\ f_dry = FALSE
    /\ f_exc = NoExc

\* build.py's main is not running.
BatchIdle ==
    /\ b_pc = "idle"
    /\ b_files = <<>>
    /\ b_dry = FALSE
    /\ b_k = 0
    /\ b_results = <<>>
    /\ b_counts = [successful |-> 0, failed |-> 0]
    /\ b_exit = <<>>
    /\ b_args = "none"

\* No TTSAdapter.generate call is under way.
TtsIdle ==
    /\ t_pc = "idle"
    /\ t_backend = "piper"
    /\ t_text = <<>>
    /\ t_dest = NoPath
    /\ t_target = NoPath
    /\ t_disk = {}
    /\ t_exc = NoExc
    /\ t_ret = NoPath

\* The two builds a thread each could run.
Builds == {1, 2}

\* No concurrent builds are under way.
ParIdle ==
    /\ p_ids = [b \in Builds |-> <<>>]
    /\ p_pc = [b \in Builds |-> "idle"]
    /\ p_disk = {}
    /\ p_reads = [b \in Builds |-> {}]
    /\ p_results = [b \in Builds |-> NoResult]

\* No FFmpegMerger call has been made.
MrgNoCall ==
    /\ m_pc = "idle"
    /\ m_op = "none"
    /\ m_paths = <<>>
    /\ m_output = NoPath
    /\ m_mkdir = FALSE
    /\ m_list = <<>>
    /\ m_tmp = FALSE
    /\ m_runs = <<>>
    /\ m_vlen = 0
    /\ m_alen = 0
    /\ m_result = [len |-> 0, video |-> 0, held |-> 0]
    /\ m_pending = NoExc
    /\ m_exc = NoExc
    /\ m_ret = <<>>

MrgIdle == MrgNoCall /\ m_ffmpeg = TRUE

\* No build call is under way.
BuildLocalsIdle ==
    /\ output_dir \in OutputDirs
    /\ tts = "piper"
    /\ scene_spec = [id |-> <<>>, title |-> <<>>,
                     visualization |-> VisualizationDefault, steps |-> <<>>]
    /\ dry_run = FALSE
    /\ pc = "idle"
    /\ scene_output_dir = NoPath
    /\ i = 0
    /\ audio_paths = <<>>
    /\ timing = <<>>
    /\ total_duration = 0
    /\ intermediate_files = <<>>
    /\ exc = NoExc
    /\ raised = NoExc
    /\ result = NoResult
    /\ calls = <<>>
    /\ timing_json = <<>>

BuildIdle == BuildLocalsIdle /\ fs = {output_dir}

\* A build call has been made and has not run yet.
BuildInit ==
    /\ output_dir \in OutputDirs
    /\ tts \in TTSBackends
    /\ scene_spec \in SceneSpec
    /\ dry_run \in BOOLEAN
    /\ pc = "start"
    /\ scene_output_dir = NoPath
    /\ i = 0
    /\ audio_paths = <<>>
    /\ timing = <<>>
    /\ total_duration = 0
    /\ intermediate_files = <<>>
    /\ exc = NoExc
    /\ raised = NoExc
    /\ result = NoResult
    /\ calls = <<>>
    /\ fs = {output_dir}
    /\ timing_json = <<>>

Init ==
    /\ BuildInit
    /\ HtmlIdle
    /\ RecIdle
    /\ MrgIdle
    /\ FileIdle
    /\ BatchIdle
    /\ TtsIdle
    /\ ParIdle

\* ---------------------------------------------- PipelineOrchestrator.build

\* self.output_dir / scene_id
SceneOutputDir(dir, scene_id) == PathJoin(dir, scene_id)

\* scene_output_dir / "final.mp4"
FinalPath(sdir) == PathJoin(sdir, <<"final.mp4">>)

\* An audio path that leaves the ordinal out.
AudioPathNoOrdinal(sdir, idx, backend) ==
    PathJoin(sdir, <<"step_">> \o <<OutputExtension(backend)>>)

\* scene_output_dir / f"step_{i}{self.tts.output_extension}"
AudioPath(sdir, idx, backend) ==
    PathJoin(sdir, <<"step_">> \o DecStr(idx) \o <<OutputExtension(backend)>>)

\* A pairing that gives every entry the first step's id and narration.
ZipFirstStep(steps, tm) ==
    LET n == IF Len(steps) < Len(tm) THEN Len(steps) ELSE Len(tm)
    IN  [k \in 1..n |->
            [id |-> steps[1].id, duration |-> tm[k],
             narration |-> steps[1].narration]]

\* zip(scene_spec.steps, timing): as long as the shorter of the two
Zip(steps, tm) ==
    LET n == IF Len(steps) < Len(tm) THEN Len(steps) ELSE Len(tm)
    IN  [k \in 1..n |->
            [id |-> steps[k].id, duration |-> tm[k],
             narration |-> steps[k].narration]]

\* the timing_data dict written to timing.json
TimingData(spec, tm, total) ==
    [scene_id |-> spec.id, step_durations |-> tm, total_duration |-> total,
     steps |-> Zip(spec.steps, tm)]

\* The error text without the exception's own message.
ErrorMsgDropsCause(e) == <<"Pipeline failed">>

\* f"Pipeline failed: {e}"
ErrorMsg(e) == <<"Pipeline failed: ">> \o e.msg

\* A failed build reporting no duration at all.
FailureTotalZero(tm) == 0

\* sum(timing) if timing else 0.0
FailureTotal(tm) == IF tm # <<>> THEN Sum(tm) ELSE 0

\* A failed result that forgets the durations measured so far.
FailedResultNoTiming(spec, sdir, tm, e, files) ==
    BuildResult(spec.id, FinalPath(sdir), <<>>, 0, FALSE, ErrorMsg(e), files)

\* A failed result whose timing is filled up with zeros to one entry per
\* step.
FailedResultPadded(spec, sdir, tm, e, files) ==
    BuildResult(spec.id, FinalPath(sdir),
                tm \o [k \in 1..(Len(spec.steps) - Len(tm)) |-> 0],
                FailureTotal(tm), FALSE, ErrorMsg(e), files)

\* A failed result that lists the final artifact's path all the same.
FailedResultWithFinal(spec, sdir, tm, e, files) ==
    BuildResult(spec.id, FinalPath(sdir), tm, FailureTotal(tm), FALSE,
                ErrorMsg(e), Append(files, Item("final", <<FinalPath(sdir)>>)))

\* The BuildResult of the except clause.
FailedResult(spec, sdir, tm, e, files) ==
    BuildResult(spec.id, FinalPath(sdir), tm, FailureTotal(tm), FALSE,
                ErrorMsg(e), files)

\* The exception is noted and the failing stage is entered again.
CaughtAndRetried(e) == exc' = e /\ pc' = pc

\* The exception e is raised inside the try block.
Caught(e) == exc' = e /\ pc' = "except"

\* A timing.json that could not be written is passed over.
WriteFailedIgnored(e) == exc' = exc /\ pc' = "render"

\* timing_path.write_text raises inside the try block.
WriteFailed(e) == Caught(e)

\* The new duration put in front of the list.
PrependDuration(tm, d) == <<d>> \o tm

\* timing.append(duration)
AppendDuration(tm, d) == Append(tm, d)

\* A capture duration with a settling buffer of half a second added.
RecordDurationWithBuffer(total) == total + 5

\* The duration argument of recorder.record: total_duration
RecordDuration(total) == total

\* A build that does not look at dry_run.
AfterMkdirAlwaysBuilds(dry) == "synth"

\* `if dry_run:` after the locals are initialised
AfterMkdir(dry) == IF dry THEN "dry_run" ELSE "synth"

\* The stages with record and concat_audio in each other's place.
StageAfterSwapped(stage) ==
    CASE stage = "synth"   -> "measure"
      [] stage = "measure" -> "render"
      [] stage = "render"  -> "concat"
      [] stage = "concat"  -> "record"
      [] stage = "record"  -> "merge"
      [] stage = "merge"   -> "returned"

\* The order of the steps in the try block.
StageAfter(stage) ==
    CASE stage = "synth"   -> "measure"
      [] stage = "measure" -> "render"
      [] stage = "render"  -> "record"
      [] stage = "record"  -> "concat"
      [] stage = "concat"  -> "merge"
      [] stage = "merge"   -> "returned"

\* scene_id, scene_output_dir, mkdir, the three empty locals, and the
\* dry_run test.  mkdir is called before the try block is entered.
BuildStart ==
    /\ pc = "start"
    /\ scene_output_dir' = SceneOutputDir(output_dir, scene_spec.id)
    /\ \E out \in MkdirOutcomes :
          IF out.ok
          THEN /\ fs' = fs \cup {scene_output_dir'}
               /\ pc' = AfterMkdir(dry_run)
               /\ raised' = raised
          ELSE /\ raised' = Exc("OSError", out.msg)
               /\ pc' = "raised"
               /\ fs' = fs
    /\ UNCHANGED <<output_dir, tts, scene_spec, dry_run, i, audio_paths,
                   timing, total_duration, intermediate_files, exc, result,
                   calls, timing_json>>
    /\ UNCHANGED rest_of_build

\* The dry_run branch: the narrations are read and logged, nothing is
\* tested, and the result reports success.
DryRun ==
    /\ pc = "dry_run"
    /\ result' = BuildResult(scene_spec.id, FinalPath(scene_output_dir),
                             <<>>, 0, TRUE, <<>>, intermediate_files)
    /\ pc' = "returned"
    /\ UNCHANGED <<output_dir, tts, scene_spec, dry_run, scene_output_dir, i,
                   audio_paths, timing, total_duration, intermediate_files,
                   exc, raised, calls, fs, timing_json>>
    /\ UNCHANGED rest_of_build

\* One round of the loop of step 1: the audio path, then tts.generate.
Generate ==
    /\ pc = "synth"
    /\ i < Len(get_narrations(scene_spec))
    /\ IF ~HasOutputExtension(tts)
       THEN /\ Caught(Exc("AttributeError",
                          <<"object has no attribute 'output_extension'">>))
            /\ UNCHANGED <<i, audio_paths, calls, fs>>
       ELSE LET narration  == get_narrations(scene_spec)[i + 1]
                audio_path == AudioPath(scene_output_dir, i, tts)
            IN  \E out \in GenerateOutcomes(narration) :
                   /\ calls' = Append(calls,
                         Call("generate", narration, audio_path, <<>>, <<>>, 0, out))
                   /\ IF out.ok
                      THEN /\ audio_paths' = Append(audio_paths, audio_path)
                           /\ fs' = fs \cup {audio_path}
                           /\ i' = i + 1
                           /\ UNCHANGED <<pc, exc>>
                      ELSE /\ Caught(Exc("PiperTTSError", out.msg))
                           /\ UNCHANGED <<i, audio_paths, fs>>
    /\ UNCHANGED <<output_dir, tts, scene_spec, dry_run, scene_output_dir,
                   timing, total_duration, intermediate_files, raised, result,
                   timing_json>>
    /\ UNCHANGED rest_of_build

\* Measurement that starts at the second audio file.
SynthDoneSkipsFirst ==
    /\ pc = "synth"
    /\ i = Len(get_narrations(scene_spec))
    /\ intermediate_files' = Append(intermediate_files, Item("audio_steps", audio_paths))
    /\ pc' = StageAfter("synth")
    /\ i' = 1
    /\ UNCHANGED <<output_dir, tts, scene_spec, dry_run, scene_output_dir,
                   audio_paths, timing, total_duration, exc, raised, result,
                   calls, fs, timing_json>>
    /\ UNCHANGED rest_of_build

\* The loop of step 1 is over: intermediate_files["audio_steps"].
SynthDone ==
    /\ pc = "synth"
    /\ i = Len(get_narrations(scene_spec))
    /\ intermediate_files' = Append(intermediate_files, Item("audio_steps", audio_paths))
    /\ pc' = StageAfter("synth")
    /\ i' = 0
    /\ UNCHANGED <<output_dir, tts, scene_spec, dry_run, scene_output_dir,
                   audio_paths, timing, total_duration, exc, raised, result,
                   calls, fs, timing_json>>
    /\ UNCHANGED rest_of_build

\* One round of the loop of step 2: tts.get_duration of the next audio path.
GetDuration ==
    /\ pc = "measure"
    /\ i < Len(audio_paths)
    /\ \E out \in GetDurationOutcomes :
          /\ calls' = Append(calls,
                Call("get_duration", <<>>, audio_paths[i + 1], <<>>, <<>>,
                     out.duration, out))
          /\ IF out.ok
             THEN /\ timing' = AppendDuration(timing, out.duration)
                  /\ i' = i + 1
                  /\ UNCHANGED <<pc, exc>>
             ELSE /\ Caught(Exc("PiperTTSError", out.msg))
                  /\ UNCHANGED <<i, timing>>
    /\ UNCHANGED <<output_dir, tts, scene_spec, dry_run, scene_output_dir,
                   audio_paths, total_duration, intermediate_files, raised,
                   result, fs, timing_json>>
    /\ UNCHANGED rest_of_build

\* The loop of step 2 is over: total_duration, then timing.json.
WriteTiming ==
    /\ pc = "measure"
    /\ i = Len(audio_paths)
    /\ total_duration' = Sum(timing)
    /\ LET timing_path == PathJoin(scene_output_dir, <<"timing.json">>)
       IN  \E out \in WriteOutcomes :
              IF out.ok
              THEN /\ timing_json' = Append(timing_json,
                          TimingData(scene_spec, timing, total_duration'))
                   /\ fs' = fs \cup {timing_path}
                   /\ intermediate_files' =
                          Append(intermediate_files, Item("timing", <<timing_path>>))
                   /\ pc' = StageAfter("measure")
                   /\ exc' = exc
              ELSE /\ WriteFailed(Exc("OSError", out.msg))
                   /\ UNCHANGED <<timing_json, fs, intermediate_files>>
    /\ UNCHANGED <<output_dir, tts, scene_spec, dry_run, scene_output_dir, i,
                   audio_paths, timing, raised, result, calls>>
    /\ UNCHANGED rest_of_build

\* Step 3: animation.render(scene_spec, timing, html_path).
Render ==
    /\ pc = "render"
    /\ LET html_path == PathJoin(scene_output_dir, <<"animation.html">>)
       IN  \E out \in RenderOutcomes(scene_spec, timing) :
              /\ calls' = Append(calls,
                    Call("render", <<>>, html_path, <<>>, timing, 0, out))
              /\ IF out.ok
                 THEN /\ fs' = fs \cup {html_path}
                      /\ intermediate_files' =
                             Append(intermediate_files, Item("html", <<html_path>>))
                      /\ pc' = StageAfter("render")
                      /\ exc' = exc
                 ELSE /\ Caught(Exc("Exception", out.msg))
                      /\ UNCHANGED <<fs, intermediate_files>>
    /\ UNCHANGED <<output_dir, tts, scene_spec, dry_run, scene_output_dir, i,
                   audio_paths, timing, total_duration, raised, result,
                   timing_json>>
    /\ UNCHANGED rest_of_build

\* Step 4: recorder.record(html_path, total_duration, video_path).
Record ==
    /\ pc = "record"
    /\ LET html_path  == PathJoin(scene_output_dir, <<"animation.html">>)
           video_path == PathJoin(scene_output_dir, <<"video.webm">>)
       IN  \E out \in RecordOutcomes :
              /\ calls' = Append(calls,
                    Call("record", <<>>, video_path, <<html_path>>, <<>>,
                         RecordDuration(total_duration), out))
              /\ IF out.ok
                 THEN /\ fs' = fs \cup {video_path}
                      /\ intermediate_files' =
                             Append(intermediate_files, Item("video", <<video_path>>))
                      /\ pc' = StageAfter("record")
                      /\ exc' = exc
                 ELSE /\ Caught(Exc("Exception", out.msg))
                      /\ UNCHANGED <<fs, intermediate_files>>
    /\ UNCHANGED <<output_dir, tts, scene_spec, dry_run, scene_output_dir, i,
                   audio_paths, timing, total_duration, raised, result,
                   timing_json>>
    /\ UNCHANGED rest_of_build

\* merger.concat_audio has ended with outcome `out`, raising an exception
\* of class `etype` when it failed.
ConcatDone(out, etype) ==
    /\ LET audio_concat_path == PathJoin(scene_output_dir, <<"audio.m4a">>)
       IN  /\ calls' = Append(calls,
                    Call("concat_audio", <<>>, audio_concat_path, audio_paths,
                         <<>>, 0, out))
           /\ IF out.ok
              THEN /\ fs' = fs \cup {audio_concat_path}
                   /\ intermediate_files' =
                          Append(intermediate_files,
                                 Item("audio_concat", <<audio_concat_path>>))
                   /\ pc' = StageAfter("concat")
                   /\ exc' = exc
              ELSE /\ Caught(Exc(etype, out.msg))
                   /\ UNCHANGED <<fs, intermediate_files>>
    /\ UNCHANGED <<output_dir, tts, scene_spec, dry_run, scene_output_dir, i,
                   audio_paths, timing, total_duration, raised, result,
                   timing_json>>

\* Step 5: merger.concat_audio(audio_paths, audio_concat_path).
ConcatAudio ==
    /\ pc = "concat"
    /\ \E out \in ConcatOutcomes : ConcatDone(out, "Exception")
    /\ UNCHANGED rest_of_build

\* Step 6: merger.merge(video_path, audio_concat_path, final_path), then
\* the successful BuildResult.
Merge ==
    /\ pc = "merge"
    /\ LET video_path        == PathJoin(scene_output_dir, <<"video.webm">>)
           audio_concat_path == PathJoin(scene_output_dir, <<"audio.m4a">>)
           final_path        == FinalPath(scene_output_dir)
       IN  \E out \in MergeOutcomes :
              /\ calls' = Append(calls,
                    Call("merge", <<>>, final_path,
                         <<video_path, audio_concat_path>>, <<>>, 0, out))
              /\ IF out.ok
                 THEN /\ fs' = fs \cup {final_path}
                      /\ intermediate_files' =
                             Append(intermediate_files, Item("final", <<final_path>>))
                      /\ result' = BuildResult(scene_spec.id, final_path, timing,
                                               total_duration, TRUE, <<>>,
                                               intermediate_files')
                      /\ pc' = StageAfter("merge")
                      /\ exc' = exc
                 ELSE /\ Caught(Exc("Exception", out.msg))
                      /\ UNCHANGED <<fs, intermediate_files, result>>
    /\ UNCHANGED <<output_dir, tts, scene_spec, dry_run, scene_output_dir, i,
                   audio_paths, timing, total_duration, raised, timing_json>>
    /\ UNCHANGED rest_of_build

\* An except clause that removes the audio files of the failed build.
ExceptCleansUp ==
    /\ pc = "except"
    /\ result' = FailedResult(scene_spec, scene_output_dir, timing, exc,
                              intermediate_files)
    /\ fs' = fs \ {audio_paths[k] : k \in DOMAIN audio_paths}
    /\ pc' = "returned"
    /\ UNCHANGED <<output_dir, tts, scene_spec, dry_run, scene_output_dir, i,
                   audio_paths, timing, total_duration, intermediate_files,
                   exc, raised, calls, timing_json>>
    /\ UNCHANGED rest_of_build

\* The except clause: the failed BuildResult.
Except ==
    /\ pc = "except"
    /\ result' = FailedResult(scene_spec, scene_output_dir, timing, exc,
                              intermediate_files)
    /\ pc' = "returned"
    /\ UNCHANGED <<output_dir, tts, scene_spec, dry_run, scene_output_dir, i,
                   audio_paths, timing, total_duration, intermediate_files,
                   exc, raised, calls, fs, timing_json>>
    /\ UNCHANGED rest_of_build

Next ==
    \/ BuildStart
    \/ DryRun
    \/ Generate
    \/ SynthDone
    \/ GetDuration
    \/ WriteTiming
    \/ Render
    \/ Record
    \/ ConcatAudio
    \/ Merge
    \/ Except

Spec == Init /\ [][Next]_vars

\* ------------------------------------------- HTMLAnimationAdapter.render

\* HTMLAnimationAdapter._get_template_name
GetTemplateName(viz_type) ==
    CASE viz_type = "array_pointers"    -> "array_animation.html"
      [] viz_type = "array"             -> "array_animation.html"
      [] viz_type = "problem_statement" -> "problem_statement.html"
      [] OTHER                          -> "array_animation.html"

\* env.get_template: the template file is there or it is not.
GetTemplateOutcomes(name) == {Outcome(TRUE, <<>>), Outcome(FALSE, <<name>>)}

\* The step-state attributes the steps_data comprehension reads.
RendererReads == {"left", "right", "highlight", "message", "reveal"}

\* A check that only catches a timing list that is too short.
TimingTooShort(tm, steps) == Len(tm) < Len(steps)

\* `len(timing) != len(spec.steps)`
TimingMismatch(tm, steps) == Len(tm) # Len(steps)

\* The "state" dict of one steps_data entry: the attributes read that the
\* state has.
StateData(state) == [f \in RendererReads \cap DOMAIN state |-> state[f]]

\* The context handed to template.render, by visualization type.
TemplateContext(spec, steps_data, tm) ==
    [kind   |-> IF spec.visualization.type = "problem_statement"
                THEN "problem_statement" ELSE "array",
     title  |-> spec.title,
     config |-> spec.visualization.config,
     steps  |-> steps_data,
     timing |-> tm]

\* The exception e leaves render.
HtmlRaise(e) == h_exc' = e /\ h_pc' = "raised"

\* The length check that opens render.
HtmlCheckTiming ==
    /\ h_pc = "call"
    /\ IF TimingMismatch(h_timing, h_spec.steps)
       THEN HtmlRaise(Exc("ValueError",
                <<"Timing list length (", ") must match number of steps (", ")">>))
       ELSE h_pc' = "template" /\ h_exc' = h_exc
    /\ UNCHANGED <<h_spec, h_timing, h_path, h_template, h_steps_data, h_ret,
                   h_files>>
    /\ UNCHANGED rest_of_html

\* template_name and self.env.get_template(template_name).
HtmlGetTemplate ==
    /\ h_pc = "template"
    /\ LET name == GetTemplateName(h_spec.visualization.type)
       IN  \E out \in GetTemplateOutcomes(name) :
              IF out.ok
              THEN h_template' = <<name>> /\ h_pc' = "steps" /\ h_exc' = h_exc
              ELSE HtmlRaise(Exc("TemplateNotFound", out.msg))
                   /\ h_template' = h_template
    /\ UNCHANGED <<h_spec, h_timing, h_path, h_steps_data, h_ret, h_files>>
    /\ UNCHANGED rest_of_html

\* steps_data: id, narration and the five state attributes of every step.
\* Reading an attribute the step state does not have raises AttributeError.
HtmlStepsData ==
    /\ h_pc = "steps"
    /\ IF \E k \in DOMAIN h_spec.steps :
             ~(RendererReads \subseteq DOMAIN h_spec.steps[k].state)
       THEN /\ HtmlRaise(Exc("AttributeError",
                   <<"'StepState' object has no attribute 'reveal'">>))
            /\ h_steps_data' = h_steps_data
       ELSE /\ h_steps_data' =
                  [k \in DOMAIN h_spec.steps |->
                      [id |-> h_spec.steps[k].id,
                       narration |-> h_spec.steps[k].narration,
                       state |-> StateData(h_spec.steps[k].state)]]
            /\ h_pc' = "write"
            /\ h_exc' = h_exc
    /\ UNCHANGED <<h_spec, h_timing, h_path, h_template, h_ret, h_files>>
    /\ UNCHANGED rest_of_html

\* template.render, the parent directory, write_text, return output_path.
HtmlWrite ==
    /\ h_pc = "write"
    /\ h_files' = h_files \cup
          {[path |-> h_path,
            content |-> TemplateContext(h_spec, h_steps_data, h_timing)]}
    /\ h_ret' = <<h_path>>
    /\ h_pc' = "returned"
    /\ UNCHANGED <<h_spec, h_timing, h_path, h_template, h_steps_data, h_exc>>
    /\ UNCHANGED rest_of_html

\* Timing lists of up to one entry more than the longest step list.
TimingLists == UNION {[1..n -> Durations] : n \in 0..(MaxSteps + 1)}

\* A render call with any scene and any timing list; no build is running.
InitRender ==
    /\ output_dir \in OutputDirs
    /\ tts = "piper"
    /\ scene_spec = [id |-> <<>>, title |-> <<>>,
                     visualization |-> VisualizationDefault, steps |-> <<>>]
    /\ dry_run = FALSE
    /\ pc = "idle"
    /\ scene_output_dir = NoPath
    /\ i = 0
    /\ audio_paths = <<>>
    /\ timing = <<>>
    /\ total_duration = 0
    /\ intermediate_files = <<>>
    /\ exc = NoExc
    /\ raised = NoExc
    /\ result = NoResult
    /\ calls = <<>>
    /\ fs = {output_dir}
    /\ timing_json = <<>>
    /\ h_pc = "call"
    /\ h_spec \in RenderSpecs
    /\ h_timing \in TimingLists
    /\ h_path = PathJoin(PathJoin(output_dir, h_spec.id), <<"animation.html">>)
    /\ h_template = <<>>
    /\ h_steps_data = <<>>
    /\ h_exc = NoExc
    /\ h_ret = <<>>
    /\ h_files = {}
    /\ RecIdle
    /\ MrgIdle
    /\ FileIdle
    /\ BatchIdle
    /\ TtsIdle
    /\ ParIdle

NextRender ==
    \/ HtmlCheckTiming
    \/ HtmlGetTemplate
    \/ HtmlStepsData
    \/ HtmlWrite

SpecRender == InitRender /\ [][NextRender]_vars

\* ------------------------------------------- PlaywrightRecorder.record

\* How many record calls one behaviour makes.
MaxRecordCalls == 2

\* timeout=10000 of page.wait_for_function, in tenths of a second
ReadyTimeout == 100

\* the 0.5 added to duration, in tenths of a second
SettleBuffer == 5

\* The step of the clock while the recorder waits, in tenths of a second.
ClockStep == 5

\* The durations record is asked for: sums of step durations.
RecordDurations == {0} \cup Durations

\* A page that sets window.animationReady, and one that never does.
Pages == {"signals", "silent"}

\* Output paths with the suffix as the last chunk of the file name.
RecordOutputs ==
    {ParsePath(<<"output", "/", "two_sum", "/", "video", sfx>>) :
        sfx \in {".webm", ".WEBM", ".mp4"}}

\* str.lower of a suffix
Lower(c) == IF c = ".WEBM" THEN ".webm" ELSE c

\* The file extensions that occur.
Extensions == {".webm", ".WEBM", ".mp4", ".wav", ".aiff", ".m4a", ".mp3"}

\* Path.suffix: the last chunk of the name when it is an extension; the
\* orchestrator's file names are single chunks.
Suffix(p) ==
    LET name == p.parts[Len(p.parts)]
        last == name[Len(name)]
    IN  IF Len(name) >= 2 /\ last \in Extensions THEN last
        ELSE IF last = "audio.m4a" THEN ".m4a"
        ELSE IF last = "video.webm" THEN ".webm"
        ELSE IF last = "final.mp4" THEN ".mp4"
        ELSE ""

\* Path.with_suffix
WithSuffix(p, sfx) ==
    LET n    == Len(p.parts)
        name == p.parts[n]
        stem == IF Suffix(p) = "" THEN name ELSE SubSeq(name, 1, Len(name) - 1)
    IN  [p EXCEPT !.parts[n] = Append(stem, sfx)]

\* The place the recorded video is moved to.
RecordTarget(output_path) ==
    IF Lower(Suffix(output_path)) = ".webm"
    THEN output_path
    ELSE WithSuffix(output_path, ".webm")

\* A video file written by the browser during record call number `call`;
\* it is complete when the context was closed.
VideoFile(call, complete) == [call |-> call, complete |-> complete]

\* chromium.launch, new_context, new_page
LaunchOutcomes == {Outcome(TRUE, <<>>), Outcome(FALSE, <<"Executable doesn't exist">>)}

\* context.close(): the video is written, or nothing is
FinalizeOutcomes == {Outcome(TRUE, <<>>), Outcome(FALSE, <<>>)}

\* A timed wait that leaves the buffer out.
WaitTimeNoBuffer(duration) == duration

\* wait_time = (duration + 0.5) * 1000
WaitTime(duration) == duration + SettleBuffer

\* An exception leaves record.
RecRaise(e) ==
    /\ r_pc' = "raised"
    /\ r_exc' = e
    /\ r_ret' = <<>>

\* record(html_path, duration, output_path) is called; the directories of
\* output_path and _video_temp are created.
RecordCall ==
    /\ r_pc \in {"idle", "returned", "raised"}
    /\ r_calls < MaxRecordCalls
    /\ r_calls' = r_calls + 1
    /\ r_page' \in Pages
    /\ r_duration' \in RecordDurations
    /\ r_output' \in RecordOutputs
    /\ r_clock' = 0
    /\ r_ready' = FALSE
    /\ r_wait_from' = 0
    /\ r_captured' = 0
    /\ r_exc' = NoExc
    /\ r_ret' = <<>>
    /\ r_pc' = "launch"
    /\ UNCHANGED <<r_dir, r_out>>
    /\ UNCHANGED rest_of_rec

\* The browser, the recording context and the page are created.
RecLaunch ==
    /\ r_pc = "launch"
    /\ \E out \in LaunchOutcomes :
          IF out.ok
          THEN /\ r_pc' = "goto"
               /\ UNCHANGED <<r_exc, r_ret>>
          ELSE RecRaise(Exc("Error", out.msg))
    /\ UNCHANGED <<r_calls, r_page, r_duration, r_output, r_clock, r_ready,
                   r_wait_from, r_captured, r_dir, r_out>>
    /\ UNCHANGED rest_of_rec

\* page.goto, then wait_for_function starts.
RecGoto ==
    /\ r_pc = "goto"
    /\ r_pc' = "wait_ready"
    /\ r_wait_from' = r_clock
    /\ UNCHANGED <<r_calls, r_page, r_duration, r_output, r_clock, r_ready,
                   r_captured, r_dir, r_out, r_exc, r_ret>>
    /\ UNCHANGED rest_of_rec

\* Time passes during a wait that has not ended.
RecTick ==
    /\ \/ r_pc = "wait_ready" /\ ~r_ready
          /\ r_clock - r_wait_from < ReadyTimeout
       \/ r_pc = "capture" /\ r_clock - r_wait_from < WaitTime(r_duration)
    /\ r_clock' = r_clock + ClockStep
    /\ UNCHANGED <<r_pc, r_calls, r_page, r_duration, r_output, r_ready,
                   r_wait_from, r_captured, r_dir, r_out, r_exc, r_ret>>
    /\ UNCHANGED rest_of_rec

\* The page sets window.animationReady = true.
PageReady ==
    /\ r_pc = "wait_ready"
    /\ r_page = "signals"
    /\ ~r_ready
    /\ r_clock - r_wait_from < ReadyTimeout
    /\ r_ready' = TRUE
    /\ UNCHANGED <<r_pc, r_calls, r_page, r_duration, r_output, r_clock,
                   r_wait_from, r_captured, r_dir, r_out, r_exc, r_ret>>
    /\ UNCHANGED rest_of_rec

\* wait_for_function returns; wait_for_timeout(wait_time) starts.
RecReady ==
    /\ r_pc = "wait_ready"
    /\ r_ready
    /\ r_pc' = "capture"
    /\ r_wait_from' = r_clock
    /\ UNCHANGED <<r_calls, r_page, r_duration, r_output, r_clock, r_ready,
                   r_captured, r_dir, r_out, r_exc, r_ret>>
    /\ UNCHANGED rest_of_rec

\* wait_for_function times out; the browser is torn down without closing
\* the context, which may leave the unfinished video behind.
RecTimeout ==
    /\ r_pc = "wait_ready"
    /\ ~r_ready
    /\ r_clock - r_wait_from >= ReadyTimeout
    /\ RecRaise(Exc("TimeoutError", <<"Timeout 10000ms exceeded">>))
    /\ r_dir' \in {r_dir, r_dir \cup {VideoFile(r_calls, FALSE)}}
    /\ UNCHANGED <<r_calls, r_page, r_duration, r_output, r_clock, r_ready,
                   r_wait_from, r_captured, r_out>>
    /\ UNCHANGED rest_of_rec

\* wait_for_timeout returns; context.close() and browser.close().
RecFinalize ==
    /\ r_pc = "capture"
    /\ r_clock - r_wait_from >= WaitTime(r_duration)
    /\ r_captured' = r_clock - r_wait_from
    /\ \E out \in FinalizeOutcomes :
          r_dir' = IF out.ok THEN r_dir \cup {VideoFile(r_calls, TRUE)} ELSE r_dir
    /\ r_pc' = "glob"
    /\ UNCHANGED <<r_calls, r_page, r_duration, r_output, r_clock, r_ready,
                   r_wait_from, r_out, r_exc, r_ret>>
    /\ UNCHANGED rest_of_rec

\* video_files[0] of the glob, in whatever order the directory lists them,
\* is renamed to the target and the target is returned.
RecCollect ==
    /\ r_pc = "glob"
    /\ IF r_dir = {}
       THEN /\ RecRaise(Exc("RuntimeError", <<"No video file was recorded">>))
            /\ UNCHANGED <<r_dir, r_out>>
       ELSE \E recorded_video \in r_dir :
               LET target == RecordTarget(r_output)
               IN  /\ r_dir' = r_dir \ {recorded_video}
                   /\ r_out' = {o \in r_out : o.path # target}
                                  \cup {[path |-> target, video |-> recorded_video]}
                   /\ r_ret' = <<target>>
                   /\ r_pc' = "returned"
                   /\ r_exc' = r_exc
    /\ UNCHANGED <<r_calls, r_page, r_duration, r_output, r_clock, r_ready,
                   r_wait_from, r_captured>>
    /\ UNCHANGED rest_of_rec

InitRecord ==
    /\ BuildIdle
    /\ HtmlIdle
    /\ RecIdle
    /\ MrgIdle
    /\ FileIdle
    /\ BatchIdle
    /\ TtsIdle
    /\ ParIdle

NextRecord ==
    \/ RecordCall
    \/ RecLaunch
    \/ RecGoto
    \/ RecTick
    \/ PageReady
    \/ RecReady
    \/ RecTimeout
    \/ RecFinalize
    \/ RecCollect

SpecRecord == InitRecord /\ [][NextRecord]_vars

\* ------------------------------------------------------------ FFmpegMerger

\* Audio files given to concat_audio: one with a quote in its name, one of
\* another format.
MergerInputs ==
    {ParsePath(<<"out", "/", "a", ".wav">>),
     ParsePath(<<"out", "/", "it", "'", "s", ".wav">>),
     ParsePath(<<"out", "/", "c", ".aiff">>)}

\* The audio_paths lists concat_audio is given.
PathLists == UNION {[1..n -> MergerInputs] : n \in 0..MaxSteps}

ConcatOutputs ==
    {ParsePath(<<"out", "/", "audio", ".m4a">>),
     ParsePath(<<"out", "/", "audio", ".wav">>)}

MergeVideo == ParsePath(<<"out", "/", "video", ".webm">>)

MergeAudio == ParsePath(<<"out", "/", "audio", ".m4a">>)

MergeOutput == ParsePath(<<"out", "/", "final", ".mp4">>)

\* Lengths of the video and the audio given to merge, in tenths of a
\* second: with and without the recorder's buffer.
MediaLengths == Durations \cup {d + SettleBuffer : d \in Durations}

\* _needs_encoding
NeedsEncoding(input_paths, output_path) ==
    LET output_ext == Lower(Suffix(output_path))
        input_exts == {Lower(Suffix(input_paths[k])) : k \in DOMAIN input_paths}
    IN  ~(Cardinality(input_exts) = 1 /\ input_exts = {output_ext})

\* str(path).replace("'", "'\\''")
EscapeChunk(c) == IF c = "'" THEN "'\\''" ELSE c

Escape(text) == [k \in DOMAIN text |-> EscapeChunk(text[k])]

\* f"file '{escaped_path}'\n"
FileLine(path) == <<"file '">> \o Escape(PathStr(path)) \o <<"'\n">>

\* A file list in the opposite order.
FileListReversed(paths) ==
    [k \in DOMAIN paths |-> FileLine(paths[Len(paths) + 1 - k])]

\* The lines written to the temporary file list.
FileList(paths) == [k \in DOMAIN paths |-> FileLine(paths[k])]

\* What FFmpeg's concat demuxer opens for a line of the list.
UnescapeChunk(c) == IF c = "'\\''" THEN "'" ELSE c

ListedFile(line) ==
    [k \in 1..(Len(line) - 2) |-> UnescapeChunk(line[k + 1])]

\* A validation of concat_audio's inputs that does not look at the disk.
ConcatInputErrorLax(paths, disk) ==
    IF paths = <<>>
    THEN Exc("ValueError", <<"audio_paths cannot be empty">>)
    ELSE NoExc

\* The validation of concat_audio's inputs: the exception it raises, if any.
ConcatInputError(paths, disk) ==
    IF paths = <<>>
    THEN Exc("ValueError", <<"audio_paths cannot be empty">>)
    ELSE LET missing == {k \in DOMAIN paths : paths[k] \notin disk}
         IN  IF missing = {} THEN NoExc
             ELSE LET k == CHOOSE k \in missing : \A j \in missing : k <= j
                  IN  Exc("FFmpegMergerError",
                          <<"Audio file not found: ">> \o PathStr(paths[k]))

\* A validation of merge's inputs that looks for the FFmpeg binary first.
MergeInputErrorBinaryFirst(video_path, audio_path, disk, ffmpeg) ==
    IF ~ffmpeg
    THEN Exc("FFmpegMergerError", <<"FFmpeg not found at ", "ffmpeg">>)
    ELSE IF video_path \notin disk
    THEN Exc("FFmpegMergerError",
             <<"Video file not found: ">> \o PathStr(video_path))
    ELSE IF audio_path \notin disk
    THEN Exc("FFmpegMergerError",
             <<"Audio file not found: ">> \o PathStr(audio_path))
    ELSE NoExc

\* The validation of merge's inputs: the exception it raises, if any.
MergeInputError(video_path, audio_path, disk, ffmpeg) ==
    IF video_path \notin disk
    THEN Exc("FFmpegMergerError",
             <<"Video file not found: ">> \o PathStr(video_path))
    ELSE IF audio_path \notin disk
    THEN Exc("FFmpegMergerError",
             <<"Audio file not found: ">> \o PathStr(audio_path))
    ELSE NoExc

\* _run_ffmpeg: the binary is missing, or the command succeeds or fails.
FFmpegOutcomes(ffmpeg) ==
    IF ~ffmpeg
    THEN {Outcome(FALSE, <<"FFmpeg not found at ", "ffmpeg">>)}
    ELSE {Outcome(TRUE, <<>>), Outcome(FALSE, <<"FFmpeg command failed: ", "stderr">>)}

\* One FFmpeg command: the files it reads in order, through the concat
\* demuxer or not, the codec option, and the file it writes.
Run(inputs, concat, codec, output) ==
    [inputs |-> inputs, concat |-> concat, codec |-> codec,
     output |-> PathStr(output)]

\* The commands run so far and the one run now, if the binary exists.
RunsAfter(runs, ffmpeg, run) == IF ffmpeg THEN Append(runs, run) ELSE runs

\* A media stream: it ends after len, or never.
Stream(len) == [finite |-> TRUE, len |-> len]

\* tpad=stop_mode=clone:stop=-1: the last frame is repeated without end
TPad(s) == [finite |-> FALSE, len |-> s.len]

\* -shortest: the output ends with the stream that ends first
Shortest(v, a) ==
    IF v.finite /\ (~a.finite \/ v.len <= a.len) THEN v ELSE a

\* Without -shortest the output ends with the stream that ends last.
Longest(v, a) ==
    IF ~v.finite \/ (a.finite /\ v.len >= a.len) THEN v ELSE a

\* A merge command without the tpad filter.
MergeArgsNoPad == [tpad |-> FALSE, shortest |-> TRUE]

\* The filter and the -shortest option of merge's command.
MergeArgs == [tpad |-> TRUE, shortest |-> TRUE]

\* What FFmpeg makes of a video and an audio of these lengths: the length
\* of the output, how much of the video it shows and for how long it holds
\* the last frame.
Mux(vlen, alen, args) ==
    LET v     == IF args.tpad THEN TPad(Stream(vlen)) ELSE Stream(vlen)
        a     == Stream(alen)
        out   == IF args.shortest THEN Shortest(v, a) ELSE Longest(v, a)
        shown == IF vlen <= out.len THEN vlen ELSE out.len
    IN  [len |-> out.len, video |-> shown, held |-> out.len - shown]

\* An exception leaves the merger call.
MrgRaise(e) ==
    /\ m_pc' = "raised"
    /\ m_exc' = e
    /\ m_ret' = <<>>

\* The merger call returns output_path.
MrgReturn ==
    /\ m_pc' = "returned"
    /\ m_ret' = <<m_output>>
    /\ m_exc' = m_exc

\* concat_audio: the empty list and missing inputs are rejected.
MConcatValidate ==
    /\ m_op = "concat"
    /\ m_pc = "call"
    /\ LET e == ConcatInputError(m_paths, fs)
       IN  IF e # NoExc
           THEN MrgRaise(e)
           ELSE /\ m_pc' = "mkdir"
                /\ UNCHANGED <<m_exc, m_ret>>
    /\ UNCHANGED <<m_op, m_paths, m_output, m_ffmpeg, m_mkdir, m_list, m_tmp,
                   m_runs, m_vlen, m_alen, m_result, m_pending, fs>>
    /\ UNCHANGED rest_of_mrg

\* concat_audio: output_path.parent.mkdir
MConcatMkdir ==
    /\ m_op = "concat"
    /\ m_pc = "mkdir"
    /\ \E out \in MkdirOutcomes :
          IF out.ok
          THEN /\ m_mkdir' = TRUE
               /\ m_pc' = IF Len(m_paths) = 1 THEN "single" ELSE "write_list"
               /\ UNCHANGED <<m_exc, m_ret>>
          ELSE /\ MrgRaise(Exc("OSError", out.msg))
               /\ UNCHANGED m_mkdir
    /\ UNCHANGED <<m_op, m_paths, m_output, m_ffmpeg, m_list, m_tmp, m_runs,
                   m_vlen, m_alen, m_result, m_pending, fs>>
    /\ UNCHANGED rest_of_mrg

\* concat_audio with one input: FFmpeg converts or copies the file.
MConcatSingle ==
    /\ m_op = "concat"
    /\ m_pc = "single"
    /\ LET codec == IF NeedsEncoding(m_paths, m_output) THEN "aac" ELSE "copy"
           run   == Run(<<PathStr(m_paths[1])>>, FALSE, codec, m_output)
       IN  \E out \in FFmpegOutcomes(m_ffmpeg) :
              /\ m_runs' = RunsAfter(m_runs, m_ffmpeg, run)
              /\ IF out.ok
                 THEN /\ fs' = fs \cup {m_output}
                      /\ MrgReturn
                 ELSE /\ MrgRaise(Exc("FFmpegMergerError", out.msg))
                      /\ UNCHANGED fs
    /\ UNCHANGED <<m_op, m_paths, m_output, m_ffmpeg, m_mkdir, m_list, m_tmp,
                   m_vlen, m_alen, m_result, m_pending>>
    /\ UNCHANGED rest_of_mrg

\* concat_audio with several inputs: the temporary file list is created
\* and written.
MConcatWriteList ==
    /\ m_op = "concat"
    /\ m_pc = "write_list"
    /\ m_tmp' = TRUE
    /\ \E out \in WriteOutcomes :
          IF out.ok
          THEN /\ m_list' = FileList(m_paths)
               /\ m_pc' = "run"
               /\ UNCHANGED <<m_exc, m_ret>>
          ELSE /\ MrgRaise(Exc("OSError", out.msg))
               /\ UNCHANGED m_list
    /\ UNCHANGED <<m_op, m_paths, m_output, m_ffmpeg, m_mkdir, m_runs, m_vlen,
                   m_alen, m_result, m_pending, fs>>
    /\ UNCHANGED rest_of_mrg

\* concat_audio with several inputs: FFmpeg reads the file list.
MConcatRun ==
    /\ m_op = "concat"
    /\ m_pc = "run"
    /\ LET codec == IF NeedsEncoding(m_paths, m_output) THEN "aac" ELSE "copy"
           run   == Run([k \in DOMAIN m_list |-> ListedFile(m_list[k])],
                        TRUE, codec, m_output)
       IN  \E out \in FFmpegOutcomes(m_ffmpeg) :
              /\ m_runs' = RunsAfter(m_runs, m_ffmpeg, run)
              /\ IF out.ok
                 THEN /\ fs' = fs \cup {m_output}
                      /\ m_pending' = NoExc
                 ELSE /\ m_pending' = Exc("FFmpegMergerError", out.msg)
                      /\ UNCHANGED fs
    /\ m_pc' = "finally"
    /\ UNCHANGED <<m_op, m_paths, m_output, m_ffmpeg, m_mkdir, m_list, m_tmp,
                   m_vlen, m_alen, m_result, m_exc, m_ret>>
    /\ UNCHANGED rest_of_mrg

\* concat_audio's finally clause removes the file list; then the call
\* returns or the exception goes on.
MConcatFinally ==
    /\ m_op = "concat"
    /\ m_pc = "finally"
    /\ m_tmp' = FALSE
    /\ IF m_pending = NoExc THEN MrgReturn ELSE MrgRaise(m_pending)
    /\ UNCHANGED <<m_op, m_paths, m_output, m_ffmpeg, m_mkdir, m_list, m_runs,
                   m_vlen, m_alen, m_result, m_pending, fs>>
    /\ UNCHANGED rest_of_mrg

\* merge: missing inputs are rejected.
MMergeValidate ==
    /\ m_op = "merge"
    /\ m_pc = "call"
    /\ LET e == MergeInputError(m_paths[1], m_paths[2], fs, m_ffmpeg)
       IN  IF e # NoExc
           THEN MrgRaise(e)
           ELSE /\ m_pc' = "mkdir"
                /\ UNCHANGED <<m_exc, m_ret>>
    /\ UNCHANGED <<m_op, m_paths, m_output, m_ffmpeg, m_mkdir, m_list, m_tmp,
                   m_runs, m_vlen, m_alen, m_result, m_pending, fs>>
    /\ UNCHANGED rest_of_mrg

\* merge: output_path.parent.mkdir
MMergeMkdir ==
    /\ m_op = "merge"
    /\ m_pc = "mkdir"
    /\ \E out \in MkdirOutcomes :
          IF out.ok
          THEN /\ m_mkdir' = TRUE
               /\ m_pc' = "run"
               /\ UNCHANGED <<m_exc, m_ret>>
          ELSE /\ MrgRaise(Exc("OSError", out.msg))
               /\ UNCHANGED m_mkdir
    /\ UNCHANGED <<m_op, m_paths, m_output, m_ffmpeg, m_list, m_tmp, m_runs,
                   m_vlen, m_alen, m_result, m_pending, fs>>
    /\ UNCHANGED rest_of_mrg

\* merge: FFmpeg muxes the padded video with the audio.
MMergeRun ==
    /\ m_op = "merge"
    /\ m_pc = "run"
    /\ LET run == Run(<<PathStr(m_paths[1]), PathStr(m_paths[2])>>, FALSE,
                      "aac", m_output)
       IN  \E out \in FFmpegOutcomes(m_ffmpeg) :
              /\ m_runs' = RunsAfter(m_runs, m_ffmpeg, run)
              /\ IF out.ok
                 THEN /\ fs' = fs \cup {m_output}
                      /\ m_result' = Mux(m_vlen, m_alen, MergeArgs)
                      /\ MrgReturn
                 ELSE /\ MrgRaise(Exc("FFmpegMergerError", out.msg))
                      /\ UNCHANGED <<fs, m_result>>
    /\ UNCHANGED <<m_op, m_paths, m_output, m_ffmpeg, m_mkdir, m_list, m_tmp,
                   m_vlen, m_alen, m_pending>>
    /\ UNCHANGED rest_of_mrg

\* A call of concat_audio or of merge, on a disk that holds some of the
\* inputs, with or without the FFmpeg binary.
InitMerger ==
    /\ BuildLocalsIdle
    /\ HtmlIdle
    /\ RecIdle
    /\ FileIdle
    /\ BatchIdle
    /\ TtsIdle
    /\ ParIdle
    /\ m_pc = "call"
    /\ m_ffmpeg \in BOOLEAN
    /\ m_mkdir = FALSE
    /\ m_list = <<>>
    /\ m_tmp = FALSE
    /\ m_runs = <<>>
    /\ m_result = [len |-> 0, video |-> 0, held |-> 0]
    /\ m_pending = NoExc
    /\ m_exc = NoExc
    /\ m_ret = <<>>
    /\ \/ /\ m_op = "concat"
          /\ m_paths \in PathLists
          /\ m_output \in ConcatOutputs
          /\ fs \in SUBSET MergerInputs
          /\ m_vlen = 0
          /\ m_alen = 0
       \/ /\ m_op = "merge"
          /\ m_paths = <<MergeVideo, MergeAudio>>
          /\ m_output = MergeOutput
          /\ fs \in SUBSET {MergeVideo, MergeAudio}
          /\ m_vlen \in MediaLengths
          /\ m_alen \in MediaLengths

NextMerger ==
    \/ MConcatValidate
    \/ MConcatMkdir
    \/ MConcatSingle
    \/ MConcatWriteList
    \/ MConcatRun
    \/ MConcatFinally
    \/ MMergeValidate
    \/ MMergeMkdir
    \/ MMergeRun

SpecMerger == InitMerger /\ [][NextMerger]_vars

\* ------------------------------- build with FFmpegMerger as its merger

\* Step 5 with the FFmpeg merger: concat_audio is called.
ConcatEnter ==
    /\ pc = "concat"
    /\ pc' = "in_concat"
    /\ m_op' = "concat"
    /\ m_pc' = "call"
    /\ m_paths' = audio_paths
    /\ m_output' = PathJoin(scene_output_dir, <<"audio.m4a">>)
    /\ UNCHANGED <<output_dir, tts, scene_spec, dry_run, scene_output_dir, i,
                   audio_paths, timing, total_duration, intermediate_files,
                   exc, raised, result, calls, fs, timing_json>>
    /\ UNCHANGED <<m_ffmpeg, m_mkdir, m_list, m_tmp, m_runs, m_vlen, m_alen,
                   m_result, m_pending, m_exc, m_ret>>
    /\ UNCHANGED <<html_vars, rec_vars, file_vars, batch_vars, tts_vars,
                   par_vars>>

\* Step 5 with the FFmpeg merger: concat_audio has returned or raised.
ConcatExit ==
    /\ pc = "in_concat"
    /\ m_pc \in {"returned", "raised"}
    /\ ConcatDone(Outcome(m_pc = "returned", m_exc.msg), m_exc.type)
    /\ UNCHANGED rest_of_build

\* A build with the piper backend whose merger is the FFmpeg merger.
InitPipeline ==
    /\ BuildInit
    /\ tts = "piper"
    /\ ~dry_run
    /\ HtmlIdle
    /\ RecIdle
    /\ MrgNoCall
    /\ m_ffmpeg \in BOOLEAN
    /\ FileIdle
    /\ BatchIdle
    /\ TtsIdle
    /\ ParIdle

NextPipeline ==
    \/ BuildStart
    \/ Generate
    \/ SynthDone
    \/ GetDuration
    \/ WriteTiming
    \/ Render
    \/ Record
    \/ ConcatEnter
    \/ MConcatValidate
    \/ MConcatMkdir
    \/ MConcatSingle
    \/ MConcatWriteList
    \/ MConcatRun
    \/ MConcatFinally
    \/ ConcatExit
    \/ Merge
    \/ Except

SpecPipeline == InitPipeline /\ [][NextPipeline]_vars

\* ------------------------------- build_from_file, build_from_file_dry_run

\* The text of a scene file is a sequence of JSON tokens: punctuation,
\* null, and string literals with their text.
Tok(t) == [t |-> t, v |-> <<>>]

StrTok(v) == [t |-> "str", v |-> v]

\* JSON values, as json.loads builds them.
JNull == [k |-> "null", s |-> <<>>, items |-> <<>>, members |-> <<>>]

JStr(text) == [k |-> "str", s |-> text, items |-> <<>>, members |-> <<>>]

JList(items) == [k |-> "list", s |-> <<>>, items |-> items, members |-> <<>>]

JObj(members) == [k |-> "obj", s |-> <<>>, items |-> <<>>, members |-> members]

Member(key, val) == [key |-> key, val |-> val]

Parsed(val, next) == [ok |-> TRUE, val |-> val, next |-> next]

NotParsed == [ok |-> FALSE, val |-> JNull, next |-> 0]

TokAt(toks, p) == IF p \in DOMAIN toks THEN toks[p].t ELSE "eof"

RECURSIVE ParseValue(_, _)
RECURSIVE ParseItems(_, _, _)
RECURSIVE ParseMembers(_, _, _)

\* The JSON value that starts at token p, and where it ends.
ParseValue(toks, p) ==
    LET t == TokAt(toks, p)
    IN  IF t = "str" THEN Parsed(JStr(toks[p].v), p + 1)
        ELSE IF t = "null" THEN Parsed(JNull, p + 1)
        ELSE IF t = "["
        THEN IF TokAt(toks, p + 1) = "]"
             THEN Parsed(JList(<<>>), p + 2)
             ELSE ParseItems(toks, p + 1, <<>>)
        ELSE IF t = "{"
        THEN IF TokAt(toks, p + 1) = "}"
             THEN Parsed(JObj(<<>>), p + 2)
             ELSE ParseMembers(toks, p + 1, <<>>)
        ELSE NotParsed

ParseItems(toks, p, acc) ==
    LET r == ParseValue(toks, p)
    IN  IF ~r.ok THEN NotParsed
        ELSE IF TokAt(toks, r.next) = ","
        THEN ParseItems(toks, r.next + 1, Append(acc, r.val))
        ELSE IF TokAt(toks, r.next) = "]"
        THEN Parsed(JList(Append(acc, r.val)), r.next + 1)
        ELSE NotParsed

ParseMembers(toks, p, acc) ==
    IF TokAt(toks, p) # "str" \/ TokAt(toks, p + 1) # ":" THEN NotParsed
    ELSE LET r == ParseValue(toks, p + 2)
         IN  IF ~r.ok THEN NotParsed
             ELSE IF TokAt(toks, r.next) = ","
             THEN ParseMembers(toks, r.next + 1,
                               Append(acc, Member(toks[p].v, r.val)))
             ELSE IF TokAt(toks, r.next) = "}"
             THEN Parsed(JObj(Append(acc, Member(toks[p].v, r.val))),
                         r.next + 1)
             ELSE NotParsed

\* json.loads: one value and nothing after it
json_loads(toks) ==
    LET r == ParseValue(toks, 1)
    IN  IF r.ok /\ r.next = Len(toks) + 1 THEN r ELSE NotParsed

\* key in dict
Has(obj, key) == \E k \in DOMAIN obj.members : obj.members[k].key = key

\* dict[key]: of several members with one key the last one counts
Get(obj, key) ==
    LET ks   == {k \in DOMAIN obj.members : obj.members[k].key = key}
        last == CHOOSE k \in ks : \A j \in ks : j <= k
    IN  obj.members[last].val

\* a required str field
IsStrField(obj, key) == Has(obj, key) /\ Get(obj, key).k = "str"

\* an Optional[str] field
IsOptStrField(obj, key) == Has(obj, key) => Get(obj, key).k \in {"str", "null"}

\* an Optional[int] field: the token grammar has no numbers
IsOptIntField(obj, key) == Has(obj, key) => Get(obj, key).k = "null"

\* pydantic's validation of StepState, Step, VisualizationConfig and
\* SceneSpec: required fields, field types, extra fields ignored
ValidStepState(j) ==
    /\ j.k = "obj"
    /\ IsOptIntField(j, <<"left">>)
    /\ IsOptIntField(j, <<"right">>)
    /\ IsOptStrField(j, <<"highlight">>)
    /\ IsOptStrField(j, <<"message">>)

ValidStep(j) ==
    /\ j.k = "obj"
    /\ IsStrField(j, <<"id">>)
    /\ IsStrField(j, <<"narration">>)
    /\ Has(j, <<"state">>)
    /\ ValidStepState(Get(j, <<"state">>))

ValidVisualization(j) ==
    /\ j.k = "obj"
    /\ IsStrField(j, <<"type">>)
    /\ Has(j, <<"config">>) => Get(j, <<"config">>).k = "obj"

ValidScene(j) ==
    /\ j.k = "obj"
    /\ IsStrField(j, <<"id">>)
    /\ IsStrField(j, <<"title">>)
    /\ IsOptStrField(j, <<"description">>)
    /\ Has(j, <<"visualization">>)
    /\ ValidVisualization(Get(j, <<"visualization">>))
    /\ Has(j, <<"steps">>)
    /\ Get(j, <<"steps">>).k = "list"
    /\ \A k \in DOMAIN Get(j, <<"steps">>).items :
          ValidStep(Get(j, <<"steps">>).items[k])

\* The text of a one-chunk string.
ChunkText(v) == IF v = <<>> THEN "" ELSE v[1]

\* An Optional[str] field of the model: None is <<>>.
OptStrValue(obj, key) ==
    IF Has(obj, key) /\ Get(obj, key).k = "str" THEN Get(obj, key).s ELSE <<>>

\* The models pydantic builds from validated data.
ToStepState(j) ==
    StepState(<<>>, <<>>, OptStrValue(j, <<"highlight">>),
              OptStrValue(j, <<"message">>))

\* StepState.model_dump(): the mapping from each declared field to its
\* value.
StepStateFields == {"left", "right", "highlight", "message"}

model_dump(state) == [key \in StepStateFields |-> state[key]]

ToStep(j) ==
    [id |-> Get(j, <<"id">>).s, narration |-> Get(j, <<"narration">>).s,
     state |-> ToStepState(Get(j, <<"state">>))]

ToVisualization(j) ==
    VisualizationConfig(
        ChunkText(Get(j, <<"type">>).s),
        IF Has(j, <<"config">>)
        THEN {ChunkText(Get(j, <<"config">>).members[k].key) :
                 k \in DOMAIN Get(j, <<"config">>).members}
        ELSE {})

ToScene(j) ==
    [id |-> Get(j, <<"id">>).s, title |-> Get(j, <<"title">>).s,
     visualization |-> ToVisualization(Get(j, <<"visualization">>)),
     steps |-> [k \in DOMAIN Get(j, <<"steps">>).items |->
                   ToStep(Get(j, <<"steps">>).items[k])]]

\* Scene file texts.
Field(key, val) == <<StrTok(key), Tok(":")>> \o val

StepText(id, narration) ==
    <<Tok("{")>> \o Field(<<"id">>, <<StrTok(id)>>)
        \o <<Tok(",")>> \o Field(<<"narration">>, <<StrTok(narration)>>)
        \o <<Tok(",")>> \o Field(<<"state">>, <<Tok("{"), Tok("}")>>)
        \o <<Tok("}")>>

NoStepsText == <<Tok("["), Tok("]")>>

TwoStepsText ==
    <<Tok("[")>> \o StepText(<<"step1">>, <<"This is step one.">>)
        \o <<Tok(",")>> \o StepText(<<"step2">>, <<"This is step two.">>)
        \o <<Tok("]")>>

\* One step whose state mapping names a field StepState does not declare:
\* {"highlight": "sum", "reveal": "target"}
ExtraStateStepsText ==
    <<Tok("["), Tok("{")>> \o Field(<<"id">>, <<StrTok(<<"step1">>)>>)
        \o <<Tok(",")>>
        \o Field(<<"narration">>, <<StrTok(<<"This is step one.">>)>>)
        \o <<Tok(",")>>
        \o Field(<<"state">>,
                 <<Tok("{")>> \o Field(<<"highlight">>, <<StrTok(<<"sum">>)>>)
                     \o <<Tok(",")>>
                     \o Field(<<"reveal">>, <<StrTok(<<"target">>)>>)
                     \o <<Tok("}")>>)
        \o <<Tok("}"), Tok("]")>>

VisualizationText ==
    <<Tok("{")>> \o Field(<<"type">>, <<StrTok(<<"array_pointers">>)>>)
        \o <<Tok("}")>>

\* {"id": ..., "title": ..., "visualization": ..., "steps": ...}
SceneText(steps) ==
    <<Tok("{")>> \o Field(<<"id">>, <<StrTok(<<"two_sum">>)>>)
        \o <<Tok(",")>> \o Field(<<"title">>, <<StrTok(<<"Two Sum">>)>>)
        \o <<Tok(",")>> \o Field(<<"visualization">>, VisualizationText)
        \o <<Tok(",")>> \o Field(<<"steps">>, steps)
        \o <<Tok("}")>>

\* the same without the visualization key
SceneTextNoVisualization ==
    <<Tok("{")>> \o Field(<<"id">>, <<StrTok(<<"two_sum">>)>>)
        \o <<Tok(",")>> \o Field(<<"title">>, <<StrTok(<<"Two Sum">>)>>)
        \o <<Tok(",")>> \o Field(<<"steps">>, TwoStepsText)
        \o <<Tok("}")>>

\* a scene whose text stops before the closing brace
SceneTextTruncated ==
    SubSeq(SceneText(TwoStepsText), 1, Len(SceneText(TwoStepsText)) - 1)

\* Texts of scene files: three scenes, then texts that are not JSON (cut
\* short, empty, with a brace too many), then JSON of the wrong shape (no
\* visualization, steps a string, a list, an empty object).
FileTexts ==
    {SceneText(TwoStepsText),
     SceneText(NoStepsText),
     SceneText(ExtraStateStepsText),
     SceneTextTruncated,
     <<>>,
     SceneText(TwoStepsText) \o <<Tok("}")>>,
     SceneTextNoVisualization,
     SceneText(<<StrTok(<<"abc">>)>>),
     NoStepsText,
     <<Tok("{"), Tok("}")>>}

ScenePaths == {ParsePath(<<"scenes", "/", "two_sum", "/", "scene", ".json">>)}

\* A handler order in which every failure of the load is reported as a
\* scene spec that cannot be parsed.
LoadErrorGeneric(readable, text) ==
    IF readable /\ json_loads(text).ok /\ ValidScene(json_loads(text).val)
    THEN NoExc
    ELSE Exc("PipelineError", <<"Failed to parse scene spec: ", "error">>)

\* The try block that reads, decodes and validates the scene file, with
\* its two handlers: the PipelineError it raises, if any.
LoadError(readable, text) ==
    IF ~readable
    THEN Exc("PipelineError",
             <<"Failed to parse scene spec: ", "Is a directory">>)
    ELSE LET r == json_loads(text)
         IN  IF ~r.ok
             THEN Exc("PipelineError",
                      <<"Invalid JSON in scene file: ", "Expecting value">>)
             ELSE IF r.val.k # "obj"
             THEN Exc("PipelineError",
                      <<"Failed to parse scene spec: ",
                        "argument after ** must be a mapping">>)
             ELSE IF ~ValidScene(r.val)
             THEN Exc("PipelineError",
                      <<"Failed to parse scene spec: ",
                        "validation error for SceneSpec">>)
             ELSE NoExc

\* An input error that is raised once the scene directory exists.
FileRaiseAfterMkdir(e) ==
    /\ f_pc' = "raised"
    /\ f_exc' = e
    /\ fs' = fs \cup {PathJoin(output_dir, <<"two_sum">>)}

\* build_from_file raises before build is called.
FileRaise(e) ==
    /\ f_pc' = "raised"
    /\ f_exc' = e
    /\ fs' = fs

\* if not scene_path.exists(): raise PipelineError
FileCheckExists ==
    /\ f_pc = "call"
    /\ IF ~f_exists
       THEN FileRaise(Exc("PipelineError",
                          <<"Scene file not found: ">> \o PathStr(f_path)))
       ELSE /\ f_pc' = "load"
            /\ UNCHANGED <<f_exc, fs>>
    /\ UNCHANGED <<f_path, f_exists, f_readable, f_text, f_dry>>
    /\ UNCHANGED build_locals
    /\ UNCHANGED rest_of_file

\* The scene file is read, decoded and validated; then build is called
\* with the scene, as a dry run or not.
FileLoad ==
    /\ f_pc = "load"
    /\ LET e == LoadError(f_readable, f_text)
       IN  IF e # NoExc
           THEN /\ FileRaise(e)
                /\ UNCHANGED <<scene_spec, dry_run, pc>>
           ELSE /\ scene_spec' = ToScene(json_loads(f_text).val)
                /\ dry_run' = f_dry
                /\ pc' = "start"
                /\ f_pc' = "build"
                /\ UNCHANGED <<f_exc, fs>>
    /\ UNCHANGED <<f_path, f_exists, f_readable, f_text, f_dry>>
    /\ UNCHANGED <<output_dir, tts, scene_output_dir, i, audio_paths, timing,
                   total_duration, intermediate_files, exc, raised, result,
                   calls, timing_json>>
    /\ UNCHANGED rest_of_file

\* build_from_file or build_from_file_dry_run is called with a path that
\* does not exist, cannot be read, or holds one of the texts.
InitFile ==
    /\ BuildIdle
    /\ HtmlIdle
    /\ RecIdle
    /\ MrgIdle
    /\ BatchIdle
    /\ TtsIdle
    /\ ParIdle
    /\ f_pc = "call"
    /\ f_path \in ScenePaths
    /\ f_dry \in BOOLEAN
    /\ f_exc = NoExc
    /\ \/ f_exists = FALSE /\ f_readable = FALSE /\ f_text = <<>>
       \/ f_exists = TRUE /\ f_readable = FALSE /\ f_text = <<>>
       \/ f_exists = TRUE /\ f_readable = TRUE /\ f_text \in FileTexts

NextFile ==
    \/ FileCheckExists
    \/ FileLoad
    \/ BuildStart
    \/ DryRun
    \/ Generate
    \/ SynthDone
    \/ GetDuration
    \/ WriteTiming
    \/ Render
    \/ Record
    \/ ConcatAudio
    \/ Merge
    \/ Except

SpecFile == InitFile /\ [][NextFile]_vars

\* ------------------------------------------------------------ build.py

\* The most scene files one run is given.
MaxScenes == 2

\* What the scene argument names: nothing, a directory without --all, a
\* directory with --all that holds no scene.json, one file, or a
\* directory with --all that holds scene files.
BatchArgs == {"not_found", "dir_without_all", "no_scene_files", "file", "dir_all"}

\* The scene files of a run exist: a file that cannot be read, a valid
\* scene, a text cut short, a scene without the visualization key.
BatchFile(readable, text) == [readable |-> readable, text |-> text]

BatchFiles ==
    {BatchFile(FALSE, <<>>)}
        \cup {BatchFile(TRUE, t) : t \in {SceneText(TwoStepsText),
                                           SceneTextTruncated,
                                           SceneTextNoVisualization}}

SceneDirs == <<"two_sum", "three_sum", "valid_palindrome", "container">>

\* The k-th scene file that sorted(path.glob("**/scene.json")) lists.
ScenePathAt(k) ==
    ParsePath(<<"scenes", "/", SceneDirs[k], "/", "scene", ".json">>)

\* Path.stem of a scene file
Stem(p) ==
    LET name == p.parts[Len(p.parts)]
    IN  IF Len(name) >= 2 /\ name[Len(name)] = ".json"
        THEN SubSeq(name, 1, Len(name) - 1)
        ELSE name

\* except PipelineError: what the loop's handler catches
BatchCatches(e) == e.type = "PipelineError"

\* The BuildResult the loop's handler appends.
BatchFailedResult(scene_file, e) ==
    BuildResult(Stem(scene_file),
                PathJoin(PathJoin(output_dir, Stem(scene_file)),
                         <<"final.mp4">>),
                <<>>, 0, FALSE, e.msg, <<>>)

\* successful = sum(1 for r in results if r.success)
Successful(results) ==
    Cardinality({k \in DOMAIN results : results[k].success})

\* The scene path is looked at: three errors end the process with status 1.
BatchFind ==
    /\ b_pc = "args"
    /\ IF b_args \in {"not_found", "dir_without_all", "no_scene_files"}
       THEN b_pc' = "exited_early" /\ b_exit' = <<1>>
       ELSE b_pc' = "adapters" /\ b_exit' = b_exit
    /\ UNCHANGED <<b_files, b_dry, b_k, b_results, b_counts, b_args>>
    /\ UNCHANGED rest_of_batch

\* The adapters are created; an exception ends the process with status 1.
BatchAdapters ==
    /\ b_pc = "adapters"
    /\ \E ok \in BOOLEAN :
          IF ok
          THEN b_pc' = "loop" /\ b_exit' = b_exit
          ELSE b_pc' = "exited_early" /\ b_exit' = <<1>>
    /\ UNCHANGED <<b_files, b_dry, b_k, b_results, b_counts, b_args>>
    /\ UNCHANGED rest_of_batch

\* One round of the loop begins: build_from_file or
\* build_from_file_dry_run is called with the next scene file.
BatchCall ==
    /\ b_pc = "loop"
    /\ b_k < Len(b_files)
    /\ b_pc' = "in_call"
    /\ f_pc' = "call"
    /\ f_path' = ScenePathAt(b_k + 1)
    /\ f_exists' = TRUE
    /\ f_readable' = b_files[b_k + 1].readable
    /\ f_text' = b_files[b_k + 1].text
    /\ f_dry' = b_dry
    /\ f_exc' = NoExc
    /\ scene_spec' = [id |-> <<>>, title |-> <<>>,
                      visualization |-> VisualizationDefault, steps |-> <<>>]
    /\ dry_run' = FALSE
    /\ pc' = "idle"
    /\ scene_output_dir' = NoPath
    /\ i' = 0
    /\ audio_paths' = <<>>
    /\ timing' = <<>>
    /\ total_duration' = 0
    /\ intermediate_files' = <<>>
    /\ exc' = NoExc
    /\ raised' = NoExc
    /\ result' = NoResult
    /\ calls' = <<>>
    /\ timing_json' = <<>>
    /\ UNCHANGED <<output_dir, tts, fs>>
    /\ UNCHANGED <<b_files, b_dry, b_k, b_results, b_counts, b_exit, b_args>>
    /\ UNCHANGED <<html_vars, rec_vars, mrg_vars, tts_vars, par_vars>>

\* The call has ended: its result is appended, or its exception reaches
\* the loop's handler, which appends a failed result for a PipelineError
\* and lets every other exception end the process.
BatchCollect ==
    /\ b_pc = "in_call"
    /\ \/ /\ f_pc = "build"
          /\ pc = "returned"
          /\ b_results' = Append(b_results, result)
          /\ b_k' = b_k + 1
          /\ b_pc' = "loop"
          /\ b_exit' = b_exit
       \/ /\ \/ f_pc = "raised"
             \/ f_pc = "build" /\ pc = "raised"
          /\ LET e == IF f_pc = "raised" THEN f_exc ELSE raised
             IN  IF BatchCatches(e)
                 THEN /\ b_results' =
                            Append(b_results, BatchFailedResult(f_path, e))
                      /\ b_k' = b_k + 1
                      /\ b_pc' = "loop"
                      /\ b_exit' = b_exit
                 ELSE /\ b_pc' = "crashed"
                      /\ b_exit' = <<1>>
                      /\ UNCHANGED <<b_results, b_k>>
    /\ UNCHANGED <<b_files, b_dry, b_counts, b_args>>
    /\ UNCHANGED rest_of_batch

\* The summary: the counts, and the exit status.
BatchSummary ==
    /\ b_pc = "loop"
    /\ b_k = Len(b_files)
    /\ b_counts' = [successful |-> Successful(b_results),
                    failed |-> Len(b_results) - Successful(b_results)]
    /\ b_exit' = <<IF b_counts'.failed > 0 THEN 1 ELSE 0>>
    /\ b_pc' = "exited"
    /\ UNCHANGED <<b_files, b_dry, b_k, b_results, b_args>>
    /\ UNCHANGED rest_of_batch

\* main is entered with its arguments parsed.
InitBatch ==
    /\ BuildIdle
    /\ HtmlIdle
    /\ RecIdle
    /\ MrgIdle
    /\ FileIdle
    /\ TtsIdle
    /\ ParIdle
    /\ b_pc = "args"
    /\ b_args \in BatchArgs
    /\ b_dry \in BOOLEAN
    /\ b_files \in UNION {[1..n -> BatchFiles] : n \in 0..MaxScenes}
    /\ b_args \in {"not_found", "dir_without_all", "no_scene_files"}
          => b_files = <<>>
    /\ b_args = "file" => Len(b_files) = 1
    /\ b_args = "dir_all" => Len(b_files) >= 1
    /\ b_k = 0
    /\ b_results = <<>>
    /\ b_counts = [successful |-> 0, failed |-> 0]
    /\ b_exit = <<>>

NextBatch ==
    \/ BatchFind
    \/ BatchAdapters
    \/ BatchCall
    \/ BatchCollect
    \/ BatchSummary
    \/ FileCheckExists
    \/ FileLoad
    \/ BuildStart
    \/ DryRun
    \/ Generate
    \/ SynthDone
    \/ GetDuration
    \/ WriteTiming
    \/ Render
    \/ Record
    \/ ConcatAudio
    \/ Merge
    \/ Except

SpecBatch == InitBatch /\ [][NextBatch]_vars

\* ------------------------------------------------- TTSAdapter.generate

\* The exception class of each adapter.
TTSErrorType(backend) ==
    IF backend = "piper" THEN "PiperTTSError"
    ELSE IF backend = "openai" THEN "OpenAITTSError"
    ELSE "TTSError"

\* Destinations: a step file of the scene directory with each suffix.
TTSDestinations ==
    {ParsePath(<<"output", "/", "two_sum", "/", "step_", "0", sfx>>) :
        sfx \in {".wav", ".aiff", ".mp3"}}

\* The path the adapter writes to: the OpenAI adapter forces the .mp3
\* suffix, the others use the path as given.
GenerateTarget(backend, output_path) ==
    IF backend = "openai" /\ Suffix(output_path) # ".mp3"
    THEN WithSuffix(output_path, ".mp3")
    ELSE output_path

\* What the speech engine (say, piper, the OpenAI API) does: it fails, it
\* is not installed or not configured, or it ends without error having
\* written no file, an empty file, or audio.
EngineOutcomes == {"failed", "not_found", "no_file", "empty_file", "audio"}

\* Sizes of the files written, in bytes.
AudioFile(path, size) == [path |-> path, size |-> size]

TtsRaise(type, msg) ==
    /\ t_pc' = "raised"
    /\ t_exc' = Exc(type, msg)
    /\ t_ret' = t_ret

\* The text is checked, the target path is chosen, its directory is
\* created.
TtsPrepare ==
    /\ t_pc = "call"
    /\ IF TextIsBlank(t_text)
       THEN /\ TtsRaise(TTSErrorType(t_backend), <<"Text cannot be empty">>)
            /\ t_target' = t_target
       ELSE /\ t_target' = GenerateTarget(t_backend, t_dest)
            /\ \E out \in MkdirOutcomes :
                  IF out.ok
                  THEN /\ t_pc' = "run"
                       /\ UNCHANGED <<t_exc, t_ret>>
                  ELSE TtsRaise("OSError", out.msg)
    /\ UNCHANGED <<t_backend, t_text, t_dest, t_disk>>
    /\ UNCHANGED rest_of_tts

\* The engine runs; its errors become the adapter's error.
TtsRun ==
    /\ t_pc = "run"
    /\ \E out \in EngineOutcomes :
          IF out = "failed"
          THEN /\ TtsRaise(TTSErrorType(t_backend), <<"failed: ", "stderr">>)
               /\ t_disk' = t_disk
          ELSE IF out = "not_found"
          THEN /\ TtsRaise(TTSErrorType(t_backend), <<"not found">>)
               /\ t_disk' = t_disk
          ELSE /\ t_pc' = "verify"
               /\ t_disk' =
                     IF out = "no_file" THEN t_disk
                     ELSE IF out = "empty_file"
                     THEN t_disk \cup {AudioFile(t_target, 0)}
                     ELSE t_disk \cup {AudioFile(t_target, 4096)}
               /\ UNCHANGED <<t_exc, t_ret>>
    /\ UNCHANGED <<t_backend, t_text, t_dest, t_target>>
    /\ UNCHANGED rest_of_tts

\* if not output_path.exists(): raise; return output_path
TtsVerify ==
    /\ t_pc = "verify"
    /\ IF \E f \in t_disk : f.path = t_target
       THEN /\ t_pc' = "returned"
            /\ t_ret' = t_target
            /\ t_exc' = t_exc
       ELSE TtsRaise(TTSErrorType(t_backend),
                     <<"Audio file was not created at ">> \o PathStr(t_target))
    /\ UNCHANGED <<t_backend, t_text, t_dest, t_target, t_disk>>
    /\ UNCHANGED rest_of_tts

\* generate(text, output_path) is called on one of the adapters.
InitTTS ==
    /\ BuildIdle
    /\ HtmlIdle
    /\ RecIdle
    /\ MrgIdle
    /\ FileIdle
    /\ BatchIdle
    /\ ParIdle
    /\ t_pc = "call"
    /\ t_backend \in TTSBackends
    /\ t_text \in Narrations
    /\ t_dest \in TTSDestinations
    /\ t_target = NoPath
    /\ t_disk = {}
    /\ t_exc = NoExc
    /\ t_ret = NoPath

NextTTS ==
    \/ TtsPrepare
    \/ TtsRun
    \/ TtsVerify

SpecTTS == InitTTS /\ [][NextTTS]_vars

\* ------------------------------------------------ two concurrent builds

\* Scene ids of concurrent builds: two plain names, a name with a
\* trailing separator, the empty text.
ParSceneIds == {<<"two_sum">>, <<"three_sum">>, <<"two_sum", "/">>, <<>>}

\* scene_output_dir of build b
ParDir(b) == SceneOutputDir(output_dir, p_ids[b])

\* scene_output_dir / name
ParFile(b, name) == PathJoin(ParDir(b), <<name>>)

\* The recorder's video directory: output_path.parent / "_video_temp"
ParVideoDir(b) == PathJoin(ParDir(b), <<"_video_temp">>)

\* A file on disk and the build whose data it holds.
Made(path, b) == [path |-> path, owner |-> b]

\* Writing a file replaces what was at its path.
WriteFile(disk, path, b) == {f \in disk : f.path # path} \cup {Made(path, b)}

\* What a build finds at a path.
FileAt(disk, path) == {f \in disk : f.path = path}

\* video_dir.glob("*.webm")
GlobWebm(disk, dir) ==
    {f \in disk :
        /\ f.path.root = dir.root
        /\ Len(f.path.parts) = Len(dir.parts) + 1
        /\ SubSeq(f.path.parts, 1, Len(dir.parts)) = dir.parts
        /\ Suffix(f.path) = ".webm"}

\* Build b moves on, having written and read files.
ParStep(b, stage, disk, reads) ==
    /\ p_pc' = [p_pc EXCEPT ![b] = stage]
    /\ p_disk' = disk
    /\ p_reads' = [p_reads EXCEPT ![b] = @ \cup reads]
    /\ UNCHANGED <<p_ids, p_results>>
    /\ UNCHANGED rest_of_par

\* scene_output_dir.mkdir(parents=True, exist_ok=True)
ParStart(b) ==
    /\ p_pc[b] = "start"
    /\ ParStep(b, "synth", p_disk, {})

\* Step 1: tts.generate writes the step's audio file.
ParGenerate(b) ==
    /\ p_pc[b] = "synth"
    /\ ParStep(b, "measure",
               WriteFile(p_disk, AudioPath(ParDir(b), 0, "piper"), b), {})

\* Step 2: tts.get_duration reads the audio file; timing.json is written.
ParGetDuration(b) ==
    /\ p_pc[b] = "measure"
    /\ ParStep(b, "render",
               WriteFile(p_disk, ParFile(b, "timing.json"), b),
               FileAt(p_disk, AudioPath(ParDir(b), 0, "piper")))

\* Step 3: animation.render writes animation.html.
ParRender(b) ==
    /\ p_pc[b] = "render"
    /\ ParStep(b, "capture",
               WriteFile(p_disk, ParFile(b, "animation.html"), b), {})

\* Step 4, in the browser: the page is read and the recording is written
\* into the video directory under a name of its own.
ParCapture(b) ==
    /\ p_pc[b] = "capture"
    /\ ParStep(b, "collect",
               WriteFile(p_disk,
                         PathJoin(ParVideoDir(b),
                                  <<"page">> \o DecStr(b) \o <<".webm">>),
                         b),
               FileAt(p_disk, ParFile(b, "animation.html")))

\* Step 4, after the browser: the first .webm of the video directory, in
\* whatever order glob lists them, is moved to video.webm.
ParCollect(b) ==
    /\ p_pc[b] = "collect"
    /\ \E f \in GlobWebm(p_disk, ParVideoDir(b)) :
          ParStep(b, "concat",
                  WriteFile(p_disk \ {f}, ParFile(b, "video.webm"), f.owner),
                  {f})

\* Step 5: merger.concat_audio reads the audio file and writes audio.m4a.
ParConcat(b) ==
    /\ p_pc[b] = "concat"
    /\ ParStep(b, "merge",
               WriteFile(p_disk, ParFile(b, "audio.m4a"), b),
               FileAt(p_disk, AudioPath(ParDir(b), 0, "piper")))

\* Step 6: merger.merge reads video.webm and audio.m4a and writes
\* final.mp4; the build returns its result.
ParMerge(b) ==
    /\ p_pc[b] = "merge"
    /\ p_pc' = [p_pc EXCEPT ![b] = "returned"]
    /\ p_disk' = WriteFile(p_disk, FinalPath(ParDir(b)), b)
    /\ p_reads' = [p_reads EXCEPT ![b] =
                      @ \cup FileAt(p_disk, ParFile(b, "video.webm"))
                        \cup FileAt(p_disk, ParFile(b, "audio.m4a"))]
    /\ p_results' = [p_results EXCEPT ![b] =
                        BuildResult(p_ids[b], FinalPath(ParDir(b)), <<>>, 0,
                                    TRUE, <<>>, <<>>)]
    /\ UNCHANGED p_ids
    /\ UNCHANGED rest_of_par

\* A port raises inside the try block: the build returns a failed result.
ParExcept(b) ==
    /\ p_pc[b] \in {"synth", "measure", "render", "capture", "collect",
                    "concat", "merge"}
    /\ p_pc' = [p_pc EXCEPT ![b] = "returned"]
    /\ p_results' = [p_results EXCEPT ![b] =
                        BuildResult(p_ids[b], FinalPath(ParDir(b)), <<>>, 0,
                                    FALSE, <<"Pipeline failed: ">>, <<>>)]
    /\ UNCHANGED <<p_ids, p_disk, p_reads>>
    /\ UNCHANGED rest_of_par

\* Two builds of scenes with different ids are called on one orchestrator.
InitPar ==
    /\ BuildIdle
    /\ HtmlIdle
    /\ RecIdle
    /\ MrgIdle
    /\ FileIdle
    /\ BatchIdle
    /\ TtsIdle
    /\ p_ids \in [Builds -> ParSceneIds]
    /\ p_ids[1] # p_ids[2]
    /\ p_pc = [b \in Builds |-> "start"]
    /\ p_disk = {}
    /\ p_reads = [b \in Builds |-> {}]
    /\ p_results = [b \in Builds |-> NoResult]

NextPar ==
    \E b \in Builds :
        \/ ParStart(b)
        \/ ParGenerate(b)
        \/ ParGetDuration(b)
        \/ ParRender(b)
        \/ ParCapture(b)
        \/ ParCollect(b)
        \/ ParConcat(b)
        \/ ParMerge(b)
        \/ ParExcept(b)

SpecPar == InitPar /\ [][NextPar]_vars

\* ----------------------------------------------------------------- claims

NSteps == Len(scene_spec.steps)

Returned == pc = "returned"

\* The ports called so far, in order.
PortsCalled == [k \in DOMAIN calls |-> calls[k].port]

\* The port calls that raised.
FailedCalls == {k \in DOMAIN calls : ~calls[k].ok}

IsGetDuration(c) == c.port = "get_duration" /\ c.ok

\* The durations get_duration has returned, in call order.
Measured ==
    LET cs == SelectSeq(calls, IsGetDuration)
    IN  [k \in DOMAIN cs |-> cs[k].duration]

\* The port sequence of a complete build of n steps.
PipelineOrder(n) ==
    [k \in 1..(2 * n + 4) |->
        IF k <= n THEN "generate"
        ELSE IF k <= 2 * n THEN "get_duration"
        ELSE IF k = 2 * n + 1 THEN "render"
        ELSE IF k = 2 * n + 2 THEN "record"
        ELSE IF k = 2 * n + 3 THEN "concat_audio"
        ELSE "merge"]

IsPrefix(s, t) == Len(s) <= Len(t) /\ s = SubSeq(t, 1, Len(s))

\* C1: build never lets a failure escape: whatever fails, output-directory
\* creation included, no exception leaves the call.
C1_NothingEscapes == raised = NoExc

\* C2: the ports are called in pipeline order: at every moment the calls
\* made are a prefix of generate x N, get_duration x N, render, record,
\* concat_audio, merge, the k-th generate and the k-th get_duration are given
\* the audio path of step k, and a successful build has made all of them.
C2_PipelineOrder ==
    /\ IsPrefix(PortsCalled, PipelineOrder(NSteps))
    /\ \A k \in DOMAIN calls :
          /\ calls[k].port = "generate"
                => calls[k].path = AudioPath(scene_output_dir, k - 1, tts)
          /\ calls[k].port = "get_duration"
                => calls[k].path = AudioPath(scene_output_dir, k - NSteps - 1, tts)
    /\ (Returned /\ result.success /\ ~dry_run)
          => /\ PortsCalled = PipelineOrder(NSteps)
             /\ FailedCalls = {}

C2_Witness ==
    /\ Returned /\ result.success /\ ~dry_run
    /\ NSteps >= 2
    /\ Len(calls) = 2 * NSteps + 4

C4_FailedIsTerminal ==
    [][(exc # NoExc \/ FailedCalls # {}) => calls' = calls]_vars

C4_Witness ==
    /\ Returned
    /\ ~result.success
    /\ calls # <<>>
    /\ calls[Len(calls)].port = "render"
    /\ ~calls[Len(calls)].ok

C6_DryRunTouchesNothing ==
    dry_run
        => /\ calls = <<>>
           /\ timing_json = <<>>
           /\ fs \subseteq {output_dir, SceneOutputDir(output_dir, scene_spec.id)}
           /\ Returned => /\ result.success
                          /\ result.timing = <<>>
                          /\ result.total_duration = 0

C6_Witness == Returned /\ dry_run /\ result.success /\ NSteps >= 2

\* C7: a dry run reports success only for a scene with at least one step
\* whose narrations are all non-blank.
C7_DryRunValidates ==
    (Returned /\ dry_run /\ result.success)
        => /\ NSteps >= 1
           /\ \A k \in 1..NSteps : ~TextIsBlank(scene_spec.steps[k].narration)

\* C8: from the end of duration measurement on, the timing list has one entry
\* per step: in timing.json, in every render call, in every stage after
\* measurement and in a successful result; and it is the measured list itself.
C8_LengthInvariant ==
    /\ \A k \in DOMAIN timing_json :
          /\ Len(timing_json[k].step_durations) = NSteps
          /\ Len(timing_json[k].steps) = NSteps
          /\ timing_json[k].step_durations = Measured
    /\ \A k \in DOMAIN calls :
          calls[k].port = "render"
             => Len(calls[k].timing) = NSteps /\ calls[k].timing = Measured
    /\ pc \in {"render", "record", "concat", "merge"}
          => Len(timing) = NSteps /\ timing = Measured
    /\ (Returned /\ result.success /\ ~dry_run)
          => Len(result.timing) = NSteps /\ result.timing = Measured

C8_Witness ==
    /\ Returned /\ result.success /\ ~dry_run
    /\ NSteps >= 2
    /\ Len(timing_json) = 1
    /\ \E k \in DOMAIN calls : calls[k].port = "render"

\* C9: in every result build returns, total_duration is the sum of timing,
\* which is 0 for an empty timing.
C9_TotalIsSum ==
    Returned => result.total_duration = Sum(result.timing)

C9_Witness ==
    /\ Returned
    /\ ~result.success
    /\ result.timing # <<>>
    /\ Len(result.timing) < NSteps

\* The path the text <output_root>/<scene_id>/final.mp4 names.
ConventionalPath(dir, scene_id) ==
    ParsePath(PathStr(dir) \o <<"/">> \o scene_id \o <<"/", "final.mp4">>)

\* C10: every result build returns has the scene's id and the output path
\* <output_root>/<scene_id>/final.mp4.
C10_ConventionalOutputPath ==
    Returned
        => /\ result.scene_id = scene_spec.id
           /\ result.output_path = ConventionalPath(output_dir, scene_spec.id)

\* The generate calls made so far.
GenerateCalls == {k \in DOMAIN calls : calls[k].port = "generate"}

\* Nothing the build asked of a port or of the disk has failed.
AllCallsSucceeded == FailedCalls = {} /\ exc.type # "OSError"

HasBlankNarration ==
    \E k \in 1..NSteps : TextIsBlank(scene_spec.steps[k].narration)

\* C11: with any TTS backend whose calls all succeed, a non-dry-run build of
\* a scene whose narrations are all non-blank calls generate once per step
\* and returns success.
C11_BackendAgnostic ==
    (Returned /\ ~dry_run /\ ~HasBlankNarration /\ AllCallsSucceeded)
        => /\ result.success
           /\ Cardinality(GenerateCalls) = NSteps

\* The audio files generate has produced.
AudioProduced == {calls[k].path : k \in {j \in GenerateCalls : calls[j].ok}}

\* C12: a scene with a blank narration at any step fails before any audio is
\* generated: when build returns, no audio file of the scene was produced.
C12_BlankFailsBeforeAudio ==
    (Returned /\ ~dry_run /\ HasBlankNarration)
        => /\ ~result.success
           /\ AudioProduced = {}
           /\ AudioProduced \cap fs = {}

\* A render call has ended, by returning or by raising.
HtmlEnded == h_pc \in {"returned", "raised"}

\* C13: render raises ValueError whenever the timing list and the step list
\* differ in length, before it loads a template or writes anything.
C13_RenderRejectsMismatch ==
    Len(h_timing) # Len(h_spec.steps)
        => /\ h_pc \in {"call", "raised"}
           /\ h_pc = "raised" => h_exc.type = "ValueError"
           /\ h_template = <<>>
           /\ h_files = {}
           /\ h_ret = <<>>

C13_Witness ==
    /\ h_pc = "raised"
    /\ h_exc.type = "ValueError"
    /\ Len(h_timing) > Len(h_spec.steps)
    /\ Len(h_spec.steps) >= 1

\* C14: for a scene and a timing list of the same length, render (its
\* template found) completes without error, writes the HTML file and returns
\* output_path.
C14_RenderCompletes ==
    (HtmlEnded /\ Len(h_timing) = Len(h_spec.steps)
               /\ h_exc.type # "TemplateNotFound")
        => /\ h_pc = "returned"
           /\ h_ret = <<h_path>>
           /\ \E f \in h_files : f.path = h_path

\* The calls made to one port.
CallsTo(port) == {k \in DOMAIN calls : calls[k].port = port}

\* C15: timing.json holds the scene id, the measured durations, their sum,
\* and one entry per step with that step's id, duration and narration; the
\* renderer is given the same duration list.
C15_TimingJsonContent ==
    /\ \A k \in DOMAIN timing_json :
          LET tj == timing_json[k]
          IN  /\ tj.scene_id = scene_spec.id
              /\ tj.step_durations = Measured
              /\ tj.total_duration = Sum(Measured)
              /\ Len(tj.steps) = NSteps
              /\ \A j \in 1..NSteps :
                    tj.steps[j] = [id |-> scene_spec.steps[j].id,
                                   duration |-> Measured[j],
                                   narration |-> scene_spec.steps[j].narration]
    /\ \A k \in CallsTo("render") :
          /\ Len(timing_json) = 1
          /\ calls[k].timing = timing_json[1].step_durations
          /\ Len(calls[k].timing) = NSteps

C15_Witness ==
    /\ Len(timing_json) = 1
    /\ timing_json[1].step_durations = <<15, 25, 10>>
    /\ timing_json[1].total_duration = 50
    /\ Len(timing_json[1].steps) = 3
    /\ scene_spec.steps[1].id # scene_spec.steps[2].id
    /\ \E k \in CallsTo("render") : calls[k].timing = <<15, 25, 10>>

\* C16: whenever render, record, concat_audio or merge has been called (or
\* is about to be), timing.json of this build is on disk with the complete
\* per-step durations.
C16_TimingBeforeRender ==
    (\/ pc \in {"render", "record", "concat", "merge"}
     \/ \E k \in DOMAIN calls :
           calls[k].port \in {"render", "record", "concat_audio", "merge"})
        => /\ Len(timing_json) = 1
           /\ PathJoin(scene_output_dir, <<"timing.json">>) \in fs
           /\ timing_json[1].step_durations = Measured
           /\ Len(timing_json[1].step_durations) = NSteps

C16_Witness ==
    /\ Returned
    /\ \E k \in FailedCalls : calls[k].port = "record"
    /\ Len(timing_json) = 1
    /\ NSteps >= 2

\* C17: the k-th generate call is the k-th call of the build, is given the
\* narration of step k and the path step_<k-1><ext> inside the scene
\* directory, starts only after every earlier generate has completed, and
\* no two generate calls are given the same path.
C17_SynthesisInOrder ==
    \A k \in CallsTo("generate") :
        /\ k <= NSteps
        /\ calls[k].text = scene_spec.steps[k].narration
        /\ calls[k].path =
              [root  |-> scene_output_dir.root,
               parts |-> Append(scene_output_dir.parts,
                                <<"step_">> \o DecStr(k - 1)
                                    \o <<OutputExtension(tts)>>)]
        /\ \A j \in 1..(k - 1) :
              /\ calls[j].port = "generate"
              /\ calls[j].ok
              /\ calls[j].path # calls[k].path

C17_Witness ==
    /\ Cardinality(CallsTo("generate")) >= 2
    /\ scene_spec.steps[1].id = scene_spec.steps[2].id
    /\ pc = "measure"

\* C18: when generate fails at a step, it is the last port call of the
\* build, no get_duration call is ever made, and the audio files of the
\* steps before it are still on disk.
C18_GenerateFailureStops ==
    \A k \in FailedCalls :
        calls[k].port = "generate"
            => /\ k = Len(calls)
               /\ CallsTo("get_duration") = {}
               /\ \A j \in 1..(k - 1) :
                     /\ calls[j].port = "generate"
                     /\ calls[j].ok
                     /\ calls[j].path \in fs

C18_Witness ==
    /\ Returned
    /\ Len(calls) = 3
    /\ calls[3].port = "generate"
    /\ ~calls[3].ok
    /\ calls[1].path \in fs
    /\ calls[2].path \in fs

\* C19: get_duration is called only after every step's generate has
\* completed, the k-th get_duration call is given the audio path of step k,
\* timing[k] is the value it returned, and the result's timing is that list.
C19_MeasureInOrder ==
    /\ \A k \in CallsTo("get_duration") :
          /\ k > NSteps
          /\ k <= 2 * NSteps
          /\ \A j \in 1..NSteps : calls[j].port = "generate" /\ calls[j].ok
          /\ calls[k].path = calls[k - NSteps].path
          /\ calls[k].ok
                => /\ Len(timing) >= k - NSteps
                   /\ timing[k - NSteps] = calls[k].duration
    /\ timing = Measured
    /\ Returned => result.timing = Measured

C19_Witness ==
    /\ Returned
    /\ result.success
    /\ result.timing = <<25, 10, 15>>

\* C20: recorder.record is called at most once, exactly once in a
\* successful build, right after the render call, with the path render was
\* given and a duration equal to the sum of the measured durations.
C20_CaptureOnce ==
    /\ Cardinality(CallsTo("record")) <= 1
    /\ \A k \in CallsTo("record") :
          /\ k > 1
          /\ calls[k - 1].port = "render"
          /\ calls[k - 1].ok
          /\ calls[k].paths = <<calls[k - 1].path>>
          /\ calls[k].duration = Sum(Measured)
    /\ (Returned /\ result.success /\ ~dry_run)
          => Cardinality(CallsTo("record")) = 1

C20_Witness ==
    /\ Returned
    /\ result.success
    /\ \E k \in CallsTo("record") : calls[k].duration = 50 /\ calls[k].ok

\* The complete video of the record call under way, wherever it lies.
OwnVideoExists ==
    \/ VideoFile(r_calls, TRUE) \in r_dir
    \/ \E o \in r_out : o.video = VideoFile(r_calls, TRUE)

\* C21: the recorder starts its timed wait only once the page has signalled
\* readiness, waits duration plus the 0.5 s buffer, and only then finalizes
\* the video; when the signal does not come within the timeout the call
\* raises and returns no video.
C21_ReadyThenCapture ==
    /\ r_pc \in {"capture", "glob", "returned"} => r_ready
    /\ r_pc \in {"glob", "returned"}
          => /\ r_captured >= r_duration + SettleBuffer
             /\ r_captured < r_duration + SettleBuffer + ClockStep
    /\ OwnVideoExists
          => /\ r_pc \in {"glob", "returned", "raised"}
             /\ r_captured >= r_duration + SettleBuffer
    /\ r_exc.type = "TimeoutError"
          => /\ r_pc = "raised"
             /\ ~r_ready
             /\ r_clock - r_wait_from >= ReadyTimeout
             /\ r_ret = <<>>
             /\ ~OwnVideoExists
    /\ r_page = "silent" => r_pc # "returned" /\ r_ret = <<>>

C21_Witness ==
    /\ r_pc = "returned"
    /\ r_duration = 25
    /\ r_captured = 30
    /\ r_clock = 45
    /\ r_ret = <<RecordTarget(r_output)>>

\* The audio path of each step, in step order.
StepAudioPaths ==
    [j \in 1..NSteps |->
        [root  |-> scene_output_dir.root,
         parts |-> Append(scene_output_dir.parts,
                          <<"step_">> \o DecStr(j - 1)
                              \o <<OutputExtension(tts)>>)]]

\* C22: concat_audio is called at most once, exactly once in a successful
\* build, with the audio paths of all N steps in step order, the paths the
\* generate calls were given; the file list FFmpegMerger writes has one
\* line per step in that order, and FFmpeg reads the files in that order.
C22_ConcatInStepOrder ==
    /\ Cardinality(CallsTo("concat_audio")) <= 1
    /\ (Returned /\ result.success)
          => Cardinality(CallsTo("concat_audio")) = 1
    /\ pc = "in_concat" => m_paths = StepAudioPaths
    /\ \A k \in CallsTo("concat_audio") :
          /\ calls[k].paths = StepAudioPaths
          /\ \A j \in 1..NSteps :
                /\ calls[j].port = "generate"
                /\ calls[j].path = calls[k].paths[j]
    /\ m_list # <<>>
          => /\ Len(m_list) = NSteps
             /\ \A j \in 1..NSteps :
                   m_list[j] = <<"file '">> \o Escape(PathStr(StepAudioPaths[j]))
                                   \o <<"'\n">>
    /\ \A r \in DOMAIN m_runs :
          m_runs[r].inputs = [j \in 1..NSteps |-> PathStr(StepAudioPaths[j])]

C22_Witness ==
    /\ Returned
    /\ result.success
    /\ NSteps = 3
    /\ Len(m_list) = 3
    /\ Len(m_runs) = 1
    /\ m_runs[1].concat

\* C23: concat_audio raises ValueError for an empty list and
\* FFmpegMergerError naming the first missing file when a listed file does
\* not exist; in both cases no directory has been created, no file list
\* written and FFmpeg not run.
C23_ConcatRejectsBadInput ==
    (m_op = "concat" /\ m_pc # "call")
        => /\ m_paths = <<>>
                => /\ m_pc = "raised"
                   /\ m_exc = Exc("ValueError", <<"audio_paths cannot be empty">>)
                   /\ ~m_mkdir
                   /\ ~m_tmp
                   /\ m_runs = <<>>
                   /\ m_ret = <<>>
           /\ \A k \in DOMAIN m_paths :
                (m_paths[k] \notin fs /\ \A j \in 1..(k - 1) : m_paths[j] \in fs)
                    => /\ m_pc = "raised"
                       /\ m_exc = Exc("FFmpegMergerError",
                                      <<"Audio file not found: ">>
                                          \o PathStr(m_paths[k]))
                       /\ ~m_mkdir
                       /\ ~m_tmp
                       /\ m_runs = <<>>
                       /\ m_ret = <<>>
                       /\ m_output \notin fs

C23_Witness ==
    /\ m_op = "concat"
    /\ m_pc = "raised"
    /\ m_exc.type = "FFmpegMergerError"
    /\ Len(m_paths) = 3
    /\ m_paths[1] \in fs
    /\ m_paths[2] \notin fs
    /\ m_ffmpeg

\* C24: merge raises 'Video file not found' when the video is missing and
\* 'Audio file not found' when only the audio is missing, whether or not
\* the FFmpeg binary exists, and then runs no FFmpeg command.
C24_MergeRejectsMissingInput ==
    (m_op = "merge" /\ m_pc # "call")
        => /\ m_paths[1] \notin fs
                => /\ m_pc = "raised"
                   /\ m_exc = Exc("FFmpegMergerError",
                                  <<"Video file not found: ">>
                                      \o PathStr(m_paths[1]))
                   /\ m_runs = <<>>
                   /\ ~m_mkdir
           /\ (m_paths[1] \in fs /\ m_paths[2] \notin fs)
                => /\ m_pc = "raised"
                   /\ m_exc = Exc("FFmpegMergerError",
                                  <<"Audio file not found: ">>
                                      \o PathStr(m_paths[2]))
                   /\ m_runs = <<>>
                   /\ ~m_mkdir

C24_Witness ==
    /\ m_op = "merge"
    /\ m_pc = "raised"
    /\ ~m_ffmpeg
    /\ m_paths[1] \in fs
    /\ m_paths[2] \notin fs
    /\ m_exc.msg[1] = "Audio file not found: "

\* C25: the file merge produces is never shorter than the audio; when the
\* audio is longer than the video the whole video is shown and its last
\* frame held for the difference, and when the video is longer the output
\* ends with the audio.
C25_MergeKeepsAudio ==
    (m_op = "merge" /\ m_pc = "returned")
        => /\ m_result.len >= m_alen
           /\ m_alen > m_vlen
                => /\ m_result.video = m_vlen
                   /\ m_result.held = m_alen - m_vlen
           /\ m_vlen > m_alen
                => /\ m_result.len = m_alen
                   /\ m_result.video = m_alen
                   /\ m_result.held = 0

C25_Witness ==
    /\ m_op = "merge"
    /\ m_pc = "returned"
    /\ m_vlen = 10
    /\ m_alen = 30
    /\ m_result = [len |-> 30, video |-> 10, held |-> 20]

\* The kind of an input error: the message category of the PipelineError.
ErrorKind == f_exc.msg[1]

InputErrorKinds ==
    {"Scene file not found: ", "Invalid JSON in scene file: ",
     "Failed to parse scene spec: "}

\* C26: an input error of build_from_file or build_from_file_dry_run is a
\* PipelineError of exactly one of three kinds: 'Scene file not found' for
\* a missing file and for nothing else, 'Invalid JSON' for a text that is
\* not JSON (cut short, empty, trailing brace), 'Failed to parse scene
\* spec' for JSON of the wrong shape (no visualization key, steps of the
\* wrong type, a list, an empty object); a well-formed scene raises none.
C26_InputErrorKinds ==
    /\ f_pc = "raised" =>
          /\ f_exc.type = "PipelineError"
          /\ ErrorKind \in InputErrorKinds
          /\ ErrorKind = "Scene file not found: " <=> ~f_exists
          /\ ErrorKind = "Invalid JSON in scene file: " <=>
                /\ f_readable
                /\ f_text \in {SceneTextTruncated, <<>>,
                               SceneText(TwoStepsText) \o <<Tok("}")>>}
          /\ f_readable /\ f_text \in {SceneTextNoVisualization,
                                       SceneText(<<StrTok(<<"abc">>)>>),
                                       NoStepsText, <<Tok("{"), Tok("}")>>}
                => ErrorKind = "Failed to parse scene spec: "
    /\ f_readable /\ f_text = SceneText(TwoStepsText) => f_pc # "raised"
    /\ f_pc = "build" => f_exc = NoExc

C26_Witness ==
    /\ f_pc = "raised"
    /\ f_text = SceneTextTruncated
    /\ ErrorKind = "Invalid JSON in scene file: "

\* C27: until build_from_file has loaded a valid scene, and when it raises
\* an input error instead, no port has been called, the output directory
\* holds nothing new and build has not started.
C27_InputErrorNoSideEffects ==
    f_pc \in {"call", "load", "raised"} =>
        /\ calls = <<>>
        /\ fs = {output_dir}
        /\ pc = "idle"
        /\ scene_output_dir = NoPath
        /\ intermediate_files = <<>>

C27_Witness ==
    /\ f_pc = "raised"
    /\ f_text = SceneTextNoVisualization
    /\ ErrorKind = "Failed to parse scene spec: "
    /\ fs = {output_dir}

\* C30: no build runs with a scene of zero steps: once build_from_file has
\* called build, the scene has at least one step.
C30_NoEmptySteps == f_pc = "build" => NSteps >= 1

\* The process has ended after the loop was entered.
BatchEnded == b_pc \in {"exited", "crashed"}

\* C28: when the batch process has ended, the results list holds one
\* entry for every scene file, whatever failed in any scene.
C28_EverySceneProcessed == BatchEnded => Len(b_results) = Len(b_files)

\* C29: when the batch process has ended, its exit status is non-zero
\* exactly if some result has success = False, and the counts of the
\* summary add up to the number of scenes processed.
C29_ExitStatusIffFailure ==
    BatchEnded =>
        /\ b_exit # <<0>> <=> \E k \in DOMAIN b_results : ~b_results[k].success
        /\ b_pc = "exited" =>
              b_counts.successful + b_counts.failed = Len(b_results)

\* C31: a scene in which two steps have the same id is rejected before any
\* port is called: in a build that has called a port the step ids are
\* pairwise different.
C31_DuplicateIdsRejected ==
    calls # <<>> =>
        \A j, k \in 1..NSteps :
            j # k => get_step_ids(scene_spec)[j] # get_step_ids(scene_spec)[k]

\* The state mapping of step k as the scene file gives it.
StateInFile(k) ==
    Get(Get(json_loads(f_text).val, <<"steps">>).items[k], <<"state">>)

\* C32: every field of a step's state mapping that is not one of left,
\* right, highlight and message is still there, with its value, when the
\* parsed state is serialized again.
C32_ExtraFieldsKept ==
    f_pc = "build" =>
        \A k \in 1..NSteps :
            \A m \in DOMAIN StateInFile(k).members :
                LET key == ChunkText(StateInFile(k).members[m].key)
                    dumped == model_dump(scene_spec.steps[k].state)
                IN  key \notin StepStateFields =>
                        /\ key \in DOMAIN dumped
                        /\ dumped[key] = StateInFile(k).members[m].val.s

\* C33: get_narrations and get_step_ids return lists as long as the steps
\* list whose k-th element is the narration and the id of step k, and the
\* scene is the same after every step of a build that called them.
C33_Projections ==
    /\ [](/\ Len(get_narrations(scene_spec)) = NSteps
          /\ Len(get_step_ids(scene_spec)) = NSteps
          /\ \A k \in 1..NSteps :
                /\ get_narrations(scene_spec)[k] = scene_spec.steps[k].narration
                /\ get_step_ids(scene_spec)[k] = scene_spec.steps[k].id)
    /\ [][scene_spec' = scene_spec]_vars

C33_Witness ==
    /\ NSteps >= 2
    /\ CallsTo("generate") # {}
    /\ scene_spec.steps[1].id # scene_spec.steps[2].id
    /\ scene_spec.steps[1].narration # scene_spec.steps[2].narration
    /\ get_narrations(scene_spec)[2] = scene_spec.steps[2].narration

\* The path with its ".." components followed: each takes back the
\* component before it, and has no effect at the root.
RECURSIVE ResolveParts(_, _)
ResolveParts(parts, acc) ==
    IF parts = <<>> THEN acc
    ELSE IF Head(parts) = <<"..">>
    THEN ResolveParts(Tail(parts),
                      IF acc = <<>> THEN acc ELSE SubSeq(acc, 1, Len(acc) - 1))
    ELSE ResolveParts(Tail(parts), Append(acc, Head(parts)))

\* depth components or more below the directory dir
Below(p, dir, depth) ==
    LET parts == ResolveParts(p.parts, <<>>)
    IN  /\ p.root = dir.root
        /\ Len(parts) >= Len(dir.parts) + depth
        /\ SubSeq(parts, 1, Len(dir.parts)) = dir.parts

\* C34: whatever the scene id, the directory a build creates is a
\* directory inside the output root, and every file the build writes lies
\* inside that directory: nothing is written into the output root itself
\* or outside it.
C34_WritesStayInSceneDir ==
    \A p \in fs \ {output_dir} :
        IF p = scene_output_dir
        THEN Below(p, output_dir, 1)
        ELSE Below(p, output_dir, 2)

\* C35: when generate returns, a non-empty file exists at the destination
\* it was called with, for every adapter and every destination suffix.
C35_AudioAtDestination ==
    t_pc = "returned" => \E f \in t_disk : f.path = t_dest /\ f.size > 0

\* The scene ids of the two builds name different directories, neither
\* inside the other.
SeparateDirs ==
    /\ ~Below(ParDir(1), ParDir(2), 0)
    /\ ~Below(ParDir(2), ParDir(1), 0)

\* Build b has read only files it made itself, and every file in its
\* scene directory is one it made.
OwnFilesOnly(b) ==
    /\ \A f \in p_reads[b] : f.owner = b
    /\ \A f \in p_disk : Below(f.path, ParDir(b), 1) => f.owner = b

\* C36: two builds with different scene ids, their steps interleaved in
\* any way, are independent: neither reads a file the other made, and the
\* scene directory of each holds only files of its own.
C36_BuildsIndependent == \A b \in Builds : OwnFilesOnly(b)

\* The keys of intermediate_files in the order the stages record them.
StageKeys == <<"audio_steps", "timing", "html", "video", "audio_concat", "final">>

KeysOf(files) == [k \in DOMAIN files |-> files[k].key]

\* The stage that records the key has completed.
StageCompleted(key) ==
    IF key = "audio_steps"
    THEN Cardinality({k \in CallsTo("generate") : calls[k].ok}) = NSteps
    ELSE IF key = "timing" THEN Len(timing_json) = 1
    ELSE \E k \in DOMAIN calls :
            /\ calls[k].ok
            /\ calls[k].port =
                  (IF key = "html" THEN "render"
                   ELSE IF key = "video" THEN "record"
                   ELSE IF key = "audio_concat" THEN "concat_audio"
                   ELSE "merge")

FailedMeasurements == {k \in FailedCalls : calls[k].port = "get_duration"}

C39_ReturnsOwnRecording ==
    r_pc = "returned" =>
        \E o \in r_out :
            /\ o.path = r_ret[1]
            /\ o.video = VideoFile(r_calls, TRUE)

\* C40: when a concat_audio call has ended, no temporary file list is
\* left, and a call with one input never has one.
C40_NoFileListLeft ==
    m_op = "concat" =>
        /\ m_pc \in {"returned", "raised"} => ~m_tmp
        /\ Len(m_paths) = 1 => ~m_tmp /\ m_list = <<>>

====
